---- MODULE Spec2Model ----
(***************************************************************************)
(* Model of bamboo/common_python/tools.py: get_command and its helpers.    *)
(* Python text is a sequence of one-character strings (the backslash and   *)
(* the backtick are written by name), so that substring                    *)
(* tests, formatting, joining and sorting are computed and not assumed.    *)
(* Python values are tagged records: None, int, str, bool, dict.           *)
(***************************************************************************)
EXTENDS Integers, Sequences, FiniteSets, TLC

VARIABLES args, env, pc, time_limit, scheduler, lbann_errors,
          command_allocate, command_run, command_lbann, command_redirect,
          result

vars == <<args, env, pc, time_limit, scheduler, lbann_errors,
          command_allocate, command_run, command_lbann, command_redirect,
          result>>

---------------------------------------------------------------------------
(* Python values *)

PyNone == [t |-> "none"]
PyInt(n) == [t |-> "int", v |-> n]
PyStr(s) == [t |-> "str", v |-> s]
PyBool(b) == [t |-> "bool", v |-> b]
PyDict(items) == [t |-> "dict", v |-> items]

IsNone(x) == x.t = "none"

---------------------------------------------------------------------------
(* Text literals of the source *)

\* The string literals of get_command and process_executable_existence
Lit ==
  [ semicolon |-> <<";">>,
    dashdash |-> <<"-", "-">>,
    contains |-> <<" ", "c", "o", "n", "t", "a", "i", "n", "s", " ">>,
    invalid_characters |-> <<"I", "n", "v", "a", "l", "i", "d", " ", "c", "h", "a", "r", "a", "c", "t", "e", "r", "(", "s", ")">>
        \o <<":", " ">>,
    sep |-> <<" ", ",", " ">>,
    not_a_dict |-> <<"e", "x", "t", "r", "a", "_", "l", "b", "a", "n", "n", "_", "f", "l", "a", "g", "s", " ", "m", "u">>
        \o <<"s", "t", " ", "b", "e", " ", "a", " ", "d", "i", "c", "t", " ", "e", ".", "g", ".", " ", "backtick", "{">>
        \o <<"f", "l", "a", "g", " ", ":", " ", "N", "o", "n", "e", ",", " ", "f", "l", "a", "g", ":", " ", "4">>
        \o <<"}", "backtick", ".", " ", "U", "s", "e", " ", "backtick", "N", "o", "n", "e", "backtick", " ", "i", "f", " ", "a", " ">>
        \o <<"f", "l", "a", "g", " ", "h", "a", "s", " ", "n", "o", " ", "v", "a", "l", "u", "e", " ", "a", "t">>
        \o <<"t", "a", "c", "h", "e", "d", " ", "t", "o", " ", "i", "t", ".">>,
    exe_missing |-> <<"E", "x", "e", "c", "u", "t", "a", "b", "l", "e", " ", "d", "o", "e", "s", " ", "n", "o", "t", " ">>
        \o <<"e", "x", "i", "s", "t", ":", " ">>,
    unsupported_cluster |-> <<"U", "n", "s", "u", "p", "p", "o", "r", "t", "e", "d", " ", "C", "l", "u", "s", "t", "e", "r", ":">>
        \o <<" ">>,
    catalyst |-> <<"c", "a", "t", "a", "l", "y", "s", "t">>,
    corona |-> <<"c", "o", "r", "o", "n", "a">>,
    pascal |-> <<"p", "a", "s", "c", "a", "l">>,
    lassen |-> <<"l", "a", "s", "s", "e", "n">>,
    ray |-> <<"r", "a", "y">>,
    None |-> <<"N", "o", "n", "e">>,
    True |-> <<"T", "r", "u", "e">>,
    False |-> <<"F", "a", "l", "s", "e">>,
    empty |-> <<>>,
    space |-> <<" ">>,
    salloc |-> <<"s", "a", "l", "l", "o", "c">>,
    nodes |-> <<" ", "-", "-", "n", "o", "d", "e", "s", "=">>,
    partition |-> <<" ", "-", "-", "p", "a", "r", "t", "i", "t", "i", "o", "n", "=">>,
    pdebug |-> <<"p", "d", "e", "b", "u", "g">>,
    pbatch |-> <<"p", "b", "a", "t", "c", "h">>,
    time |-> <<" ", "-", "-", "t", "i", "m", "e", "=">>,
    srun |-> <<"s", "r", "u", "n", " ", "-", "-", "m", "p", "i", "b", "i", "n", "d", "=", "o", "f", "f", " ", "-">>
        \o <<"-", "t", "i", "m", "e", "=">>,
    ntasks |-> <<" ", "-", "-", "n", "t", "a", "s", "k", "s", "=">>,
    bsub |-> <<"b", "s", "u", "b">>,
    x |-> <<" ", "-", "x">>,
    G |-> <<" ", "-", "G", " ", "g", "u", "e", "s", "t", "s">>,
    Is |-> <<" ", "-", "I", "s">>,
    nnodes |-> <<" ", "-", "n", "n", "o", "d", "e", "s", " ">>,
    n |-> <<" ", "-", "n", " ">>,
    R |-> <<" ", "-", "R", " ", "\"", "s", "p", "a", "n", "[", "p", "t", "i", "l", "e", "=">>,
    R_close |-> <<"]", "\"">>,
    q |-> <<" ", "-", "q", " ">>,
    W |-> <<" ", "-", "W", " ">>,
    jsrun |-> <<"j", "s", "r", "u", "n">>,
    mpirun |-> <<"m", "p", "i", "r", "u", "n", " ", "-", "-", "t", "i", "m", "e", "o", "u", "t", "=">>,
    b |-> <<" ", "-", "b", " ", "\"", "p", "a", "c", "k", "e", "d", ":", "1", "0", "\"">>,
    c |-> <<" ", "-", "c", " ", "4", "0">>,
    g |-> <<" ", "-", "g", " ", "4">>,
    d |-> <<" ", "-", "d", " ", "p", "a", "c", "k", "e", "d">>,
    r |-> <<" ", "-", "r", " ", "1">>,
    a |-> <<" ", "-", "a", " ", "4">>,
    np |-> <<" ", "-", "n", "p", " ">>,
    N |-> <<" ", "-", "N", " ">>,
    model |-> <<" ", "-", "-", "m", "o", "d", "e", "l", "=">>,
    reader |-> <<" ", "-", "-", "r", "e", "a", "d", "e", "r", "=">>,
    optimizer |-> <<" ", "-", "-", "o", "p", "t", "i", "m", "i", "z", "e", "r", "=">>,
    model_zoo |-> <<"/", "m", "o", "d", "e", "l", "_", "z", "o", "o", "/">>,
    model_ |-> <<"/", "m", "o", "d", "e", "l", "_">>,
    prototext |-> <<".", "p", "r", "o", "t", "o", "t", "e", "x", "t">>,
    data_readers |-> <<"/", "m", "o", "d", "e", "l", "_", "z", "o", "o", "/", "d", "a", "t", "a", "_", "r", "e", "a", "d">>
        \o <<"e", "r", "s", "/", "d", "a", "t", "a", "_", "r", "e", "a", "d", "e", "r", "_">>,
    optimizers |-> <<"/", "m", "o", "d", "e", "l", "_", "z", "o", "o", "/", "o", "p", "t", "i", "m", "i", "z", "e", "r">>
        \o <<"s", "/", "o", "p", "t", "_">>,
    err_model_path |-> <<"m", "o", "d", "e", "l", "_", "p", "a", "t", "h", " ", "i", "s", " ", "s", "e", "t", " ", "b", "u">>
        \o <<"t", " ", "s", "o", " ", "i", "s", " ", "a", "t", " ", "l", "e", "a", "s", "t", " ", "o", "n", "e">>
        \o <<" ", "o", "f", " ", "m", "o", "d", "e", "l", " ", "f", "o", "l", "d", "e", "r", " ", "a", "n", "d">>
        \o <<" ", "m", "o", "d", "e", "l", "_", "n", "a", "m", "e">>,
    err_model_folder |-> <<"m", "o", "d", "e", "l", "_", "f", "o", "l", "d", "e", "r", " ", "s", "e", "t", " ", "b", "u", "t">>
        \o <<" ", "n", "o", "t", " ", "m", "o", "d", "e", "l", "_", "n", "a", "m", "e", ".">>,
    err_model_name |-> <<"m", "o", "d", "e", "l", "_", "n", "a", "m", "e", " ", "s", "e", "t", " ", "b", "u", "t", " ", "n">>
        \o <<"o", "t", " ", "m", "o", "d", "e", "l", "_", "f", "o", "l", "d", "e", "r", ".">>,
    err_data_reader_path |-> <<"d", "a", "t", "a", "_", "r", "e", "a", "d", "e", "r", "_", "p", "a", "t", "h", " ", "i", "s", " ">>
        \o <<"s", "e", "t", " ", "b", "u", "t", " ", "s", "o", " ", "i", "s", " ", "d", "a", "t", "a", "_", "r">>
        \o <<"e", "a", "d", "e", "r", "_", "n", "a", "m", "e">>,
    err_optimizer_path |-> <<"o", "p", "t", "i", "m", "i", "z", "e", "r", "_", "p", "a", "t", "h", " ", "i", "s", " ", "s", "e">>
        \o <<"t", " ", "b", "u", "t", " ", "s", "o", " ", "i", "s", " ", "o", "p", "t", "i", "m", "i", "z", "e">>
        \o <<"r", "_", "n", "a", "m", "e">>,
    err_dir_name_alone |-> <<"d", "i", "r", "_", "n", "a", "m", "e", " ", "s", "e", "t", " ", "b", "u", "t", " ", "n", "o", "n">>
        \o <<"e", " ", "o", "f", " ", "m", "o", "d", "e", "l", "_", "f", "o", "l", "d", "e", "r", ",", " ", "m">>
        \o <<"o", "d", "e", "l", "_", "n", "a", "m", "e", ",", " ", "d", "a", "t", "a", "_", "r", "e", "a", "d">>
        \o <<"e", "r", "_", "n", "a", "m", "e", ",", " ", "o", "p", "t", "i", "m", "i", "z", "e", "r", "_", "n">>
        \o <<"a", "m", "e", " ", "a", "r", "e", ".">>,
    err_dir_name_missing |-> <<"d", "i", "r", "_", "n", "a", "m", "e", " ", "i", "s", " ", "n", "o", "t", " ", "s", "e", "t", " ">>
        \o <<"b", "u", "t", " ", "a", "t", " ", "l", "e", "a", "s", "t", " ", "o", "n", "e", " ", "o", "f", " ">>
        \o <<"m", "o", "d", "e", "l", "_", "f", "o", "l", "d", "e", "r", ",", " ", "m", "o", "d", "e", "l", "_">>
        \o <<"n", "a", "m", "e", ",", " ", "d", "a", "t", "a", "_", "r", "e", "a", "d", "e", "r", "_", "n", "a">>
        \o <<"m", "e", ",", " ", "o", "p", "t", "i", "m", "i", "z", "e", "r", "_", "n", "a", "m", "e", " ", "i">>
        \o <<"s", ".">>,
    scratch |-> <<"s", "c", "r", "a", "t", "c", "h">>,
    gpfs1 |-> <<"g", "p", "f", "s", "1">>,
    gscratchr |-> <<"g", "s", "c", "r", "a", "t", "c", "h", "r">>,
    labels |-> <<"l", "a", "b", "e", "l", "s">>,
    original_labels |-> <<"o", "r", "i", "g", "i", "n", "a", "l", "/", "l", "a", "b", "e", "l", "s">>,
    data_filedir |-> <<" ", "-", "-", "d", "a", "t", "a", "_", "f", "i", "l", "e", "d", "i", "r", "=">>,
    data_filedir_train |-> <<" ", "-", "-", "d", "a", "t", "a", "_", "f", "i", "l", "e", "d", "i", "r", "_", "t", "r", "a", "i">>
        \o <<"n", "=">>,
    data_filename_train |-> <<" ", "-", "-", "d", "a", "t", "a", "_", "f", "i", "l", "e", "n", "a", "m", "e", "_", "t", "r", "a">>
        \o <<"i", "n", "=">>,
    data_filedir_test |-> <<" ", "-", "-", "d", "a", "t", "a", "_", "f", "i", "l", "e", "d", "i", "r", "_", "t", "e", "s", "t">>
        \o <<"=">>,
    data_filename_test |-> <<" ", "-", "-", "d", "a", "t", "a", "_", "f", "i", "l", "e", "n", "a", "m", "e", "_", "t", "e", "s">>
        \o <<"t", "=">>,
    err_both_shapes |-> <<"d", "a", "t", "a", "_", "f", "i", "l", "d", "i", "r", "_", "d", "e", "f", "a", "u", "l", "t", " ">>
        \o <<"s", "e", "t", " ", "b", "u", "t", " ", "s", "o", " ", "i", "s", " ", "a", "t", " ", "l", "e", "a">>
        \o <<"s", "t", " ", "o", "n", "e", " ", "o", "f", " ", "[", "d", "a", "t", "a", "_", "f", "i", "l", "e">>
        \o <<"d", "i", "r", "_", "t", "r", "a", "i", "n", "_", "d", "e", "f", "a", "u", "l", "t", ",", " ", "d">>
        \o <<"a", "t", "a", "_", "f", "i", "l", "e", "n", "a", "m", "e", "_", "t", "r", "a", "i", "n", "_", "d">>
        \o <<"e", "f", "a", "u", "l", "t", ",", " ", "d", "a", "t", "a", "_", "f", "i", "l", "e", "d", "i", "r">>
        \o <<"_", "t", "e", "s", "t", "_", "d", "e", "f", "a", "u", "l", "t", ",", " ", "d", "a", "t", "a", "_">>
        \o <<"f", "i", "l", "e", "n", "a", "m", "e", "_", "t", "e", "s", "t", "_", "d", "e", "f", "a", "u", "l">>
        \o <<"t", "]">>,
    err_no_data_location |-> <<"d", "a", "t", "a", "_", "r", "e", "a", "d", "e", "r", "_", "n", "a", "m", "e", " ", "o", "r", " ">>
        \o <<"d", "a", "t", "a", "_", "r", "e", "a", "d", "e", "r", "_", "p", "a", "t", "h", " ", "i", "s", " ">>
        \o <<"s", "e", "t", " ", "b", "u", "t", " ", "n", "o", "t", " ", "d", "a", "t", "a", "_", "f", "i", "l">>
        \o <<"e", "d", "i", "r", "_", "d", "e", "f", "a", "u", "l", "t", ".", " ", "I", "f", " ", "a", " ", "d">>
        \o <<"a", "t", "a", " ", "r", "e", "a", "d", "e", "r", " ", "i", "s", " ", "p", "r", "o", "v", "i", "d">>
        \o <<"e", "d", ",", " ", "t", "h", "e", " ", "d", "e", "f", "a", "u", "l", "t", " ", "f", "i", "l", "e">>
        \o <<"d", "i", "r", " ", "m", "u", "s", "t", " ", "b", "e", " ", "s", "e", "t", ".", " ", "T", "h", "i">>
        \o <<"s", " ", "a", "l", "l", "o", "w", "s", " ", "f", "o", "r", " ", "d", "e", "t", "e", "r", "m", "i">>
        \o <<"n", "i", "n", "g", " ", "w", "h", "a", "t", " ", "t", "h", "e", " ", "f", "i", "l", "e", "d", "i">>
        \o <<"r", " ", "s", "h", "o", "u", "l", "d", " ", "b", "e", " ", "o", "n", " ", "e", "a", "c", "h", " ">>
        \o <<"c", "l", "u", "s", "t", "e", "r", ".", " ", "A", "l", "t", "e", "r", "n", "a", "t", "i", "v", "e">>
        \o <<"l", "y", ",", " ", "s", "o", "m", "e", " ", "o", "r", " ", "a", "l", "l", " ", "o", "f", " ", "[">>
        \o <<"d", "a", "t", "a", "_", "f", "i", "l", "e", "d", "i", "r", "_", "t", "r", "a", "i", "n", "_", "d">>
        \o <<"e", "f", "a", "u", "l", "t", ",", " ", "d", "a", "t", "a", "_", "f", "i", "l", "e", "n", "a", "m">>
        \o <<"e", "_", "t", "r", "a", "i", "n", "_", "d", "e", "f", "a", "u", "l", "t", ",", " ", "d", "a", "t">>
        \o <<"a", "_", "f", "i", "l", "e", "d", "i", "r", "_", "t", "e", "s", "t", "_", "d", "e", "f", "a", "u">>
        \o <<"l", "t", ",", " ", "d", "a", "t", "a", "_", "f", "i", "l", "e", "n", "a", "m", "e", "_", "t", "e">>
        \o <<"s", "t", "_", "d", "e", "f", "a", "u", "l", "t", "]", " ", "c", "a", "n", " ", "b", "e", " ", "s">>
        \o <<"e", "t", ".">>,
    err_filedir_no_reader |-> <<"d", "a", "t", "a", "_", "f", "i", "l", "e", "d", "i", "r", "_", "d", "e", "f", "a", "u", "l", "t">>
        \o <<" ", "s", "e", "t", " ", "b", "u", "t", " ", "n", "e", "i", "t", "h", "e", "r", " ", "d", "a", "t">>
        \o <<"a", "_", "r", "e", "a", "d", "e", "r", "_", "n", "a", "m", "e", " ", "o", "r", " ", "d", "a", "t">>
        \o <<"a", "_", "r", "e", "a", "d", "e", "r", "_", "p", "a", "t", "h", " ", "a", "r", "e", ".">>,
    err_files_no_reader |-> <<"A", "t", " ", "l", "e", "a", "s", "t", " ", "o", "n", "e", " ", "o", "f", " ", "[", "d", "a", "t">>
        \o <<"a", "_", "f", "i", "l", "e", "d", "i", "r", "_", "t", "r", "a", "i", "n", "_", "d", "e", "f", "a">>
        \o <<"u", "l", "t", ",", " ", "d", "a", "t", "a", "_", "f", "i", "l", "e", "n", "a", "m", "e", "_", "t">>
        \o <<"r", "a", "i", "n", "_", "d", "e", "f", "a", "u", "l", "t", ",", " ", "d", "a", "t", "a", "_", "f">>
        \o <<"i", "l", "e", "d", "i", "r", "_", "t", "e", "s", "t", "_", "d", "e", "f", "a", "u", "l", "t", ",">>
        \o <<" ", "d", "a", "t", "a", "_", "f", "i", "l", "e", "n", "a", "m", "e", "_", "t", "e", "s", "t", "_">>
        \o <<"d", "e", "f", "a", "u", "l", "t", "]", " ", "i", "s", " ", "s", "e", "t", ",", " ", "b", "u", "t">>
        \o <<" ", "n", "e", "i", "t", "h", "e", "r", " ", "d", "a", "t", "a", "_", "r", "e", "a", "d", "e", "r">>
        \o <<"_", "n", "a", "m", "e", " ", "o", "r", " ", "d", "a", "t", "a", "_", "r", "e", "a", "d", "e", "r">>
        \o <<"_", "p", "a", "t", "h", " ", "a", "r", "e", ".">>,
    synthetic |-> <<"s", "y", "n", "t", "h", "e", "t", "i", "c">>,
    err_percent_pre |-> <<"d", "a", "t", "a", "_", "r", "e", "a", "d", "e", "r", "_", "p", "e", "r", "c", "e", "n", "t", "=">>,
    err_percent_post |-> <<" ", "i", "s", " ", "n", "o", "t", " ", "a", " ", "f", "l", "o", "a", "t", ".">>,
    data_reader_percent |-> <<" ", "-", "-", "d", "a", "t", "a", "_", "r", "e", "a", "d", "e", "r", "_", "p", "e", "r", "c", "e">>
        \o <<"n", "t", "=">>,
    exit_after_setup |-> <<" ", "-", "-", "e", "x", "i", "t", "_", "a", "f", "t", "e", "r", "_", "s", "e", "t", "u", "p">>,
    metadata |-> <<" ", "-", "-", "m", "e", "t", "a", "d", "a", "t", "a", "=">>,
    slash |-> <<"/">>,
    mini_batch_size |-> <<" ", "-", "-", "m", "i", "n", "i", "_", "b", "a", "t", "c", "h", "_", "s", "i", "z", "e", "=">>,
    num_epochs |-> <<" ", "-", "-", "n", "u", "m", "_", "e", "p", "o", "c", "h", "s", "=">>,
    procs_per_model |-> <<" ", "-", "-", "p", "r", "o", "c", "s", "_", "p", "e", "r", "_", "m", "o", "d", "e", "l", "=">>,
    ckpt_dir |-> <<" ", "-", "-", "c", "k", "p", "t", "_", "d", "i", "r", "=">>,
    flag |-> <<" ", "-", "-">>,
    eq |-> <<"=">>,
    err_flag_pre |-> <<"e", "x", "t", "r", "a", "_", "l", "b", "a", "n", "n", "_", "f", "l", "a", "g", "s", " ", "i", "n">>
        \o <<"c", "l", "u", "d", "e", "s", " ", "i", "n", "v", "a", "l", "i", "d", " ", "f", "l", "a", "g", "=">>,
    err_flag_mid |-> <<".", " ", "F", "l", "a", "g", "s", " ", "m", "u", "s", "t", " ", "b", "e", " ", "i", "n", " ">>,
    dot |-> <<".">>,
    lbracket |-> <<"[">>,
    rbracket |-> <<"]">>,
    quote |-> <<"'">>,
    comma |-> <<",", " ">>,
    invalid_usage |-> <<"I", "n", "v", "a", "l", "i", "d", " ", "U", "s", "a", "g", "e", ":", " ">>,
    out |-> <<" ", ">", " ">>,
    err |-> <<" ", "2", ">", " ">>,
    zero |-> <<"0">> ]

---------------------------------------------------------------------------
(* Text operations *)

\* Python `sub in s` for two texts.
Contains(sub, s) ==
  \E i \in 1..(Len(s) - Len(sub) + 1) : SubSeq(s, i, i + Len(sub) - 1) = sub

RECURSIVE Join(_, _)
\* Python sep.join(list)
Join(sep, list) ==
  IF list = <<>> THEN <<>>
  ELSE IF Len(list) = 1 THEN list[1]
  ELSE list[1] \o sep \o Join(sep, Tail(list))

DigitChars == <<"0", "1", "2", "3", "4", "5", "6", "7", "8", "9">>

RECURSIVE NatToStr(_)
NatToStr(n) ==
  IF n < 10 THEN <<DigitChars[n + 1]>>
  ELSE NatToStr(n \div 10) \o <<DigitChars[(n % 10) + 1]>>

\* Python '%d' % n for an int n
FormatInt(n) == IF n < 0 THEN <<"-">> \o NatToStr(-n) ELSE NatToStr(n)

RECURSIVE StripTrailingZeros(_)
StripTrailingZeros(s) ==
  IF s # <<>> /\ s[Len(s)] = "0" THEN StripTrailingZeros(SubSeq(s, 1, Len(s) - 1))
  ELSE s

RECURSIVE StripLeadingZeros(_)
StripLeadingZeros(s) ==
  IF s # <<>> /\ Head(s) = "0" THEN StripLeadingZeros(Tail(s)) ELSE s

IsDigits(s) == \A i \in 1..Len(s) : \E d \in 1..10 : s[i] = DigitChars[d]

\* Position of the first "." of s, or 0
DotPos(s) ==
  IF \E i \in 1..Len(s) : s[i] = "."
  THEN CHOOSE i \in 1..Len(s) : s[i] = "." /\ \A j \in 1..(i - 1) : s[j] # "."
  ELSE 0

\* Python float(x) for an int or for a text of the shape digits[.digits]:
\* the value is kept as its integer and fraction digits, normalised the way
\* the shortest repr prints them; "ValueError" when the text is no number.
float(x) ==
  IF x.t = "int"
  THEN [t |-> "float", neg |-> x.v < 0, int |-> NatToStr(IF x.v < 0 THEN -x.v ELSE x.v),
        frac |-> <<"0">>]
  ELSE LET s == x.v
           p == DotPos(s)
           ip == IF p = 0 THEN s ELSE SubSeq(s, 1, p - 1)
           fp == IF p = 0 THEN <<>> ELSE SubSeq(s, p + 1, Len(s))
           i0 == StripLeadingZeros(ip)
           f0 == StripTrailingZeros(fp)
       IN IF IsDigits(ip) /\ IsDigits(fp) /\ Len(ip) + Len(fp) > 0
          THEN [t |-> "float", neg |-> FALSE,
                int |-> IF i0 = <<>> THEN <<"0">> ELSE i0,
                frac |-> IF f0 = <<>> THEN <<"0">> ELSE f0]
          ELSE [t |-> "ValueError"]

\* Python '{}'.format(x) and '%s' % x
Format(x) ==
  CASE x.t = "none" -> Lit.None
    [] x.t = "int" -> FormatInt(x.v)
    [] x.t = "str" -> x.v
    [] x.t = "bool" -> IF x.v THEN Lit.True ELSE Lit.False
    [] x.t = "float" -> (IF x.neg THEN <<"-">> ELSE <<>>) \o x.int \o Lit.dot \o x.frac

\* Mutant: the quotient is rounded down
CeilDiv_rounded_down(p, n) == p \div n

\* int(math.ceil(float(p) / n)) for n > 0
CeilDiv(p, n) == -((-p) \div n)

---------------------------------------------------------------------------
(* check_list *)

RECURSIVE check_list(_, _)
check_list(substrings, strings) ==
  IF strings = <<>> THEN <<>>
  ELSE LET string == Head(strings)
           hits == SelectSeq(substrings,
                     LAMBDA substring : string.t = "str" /\ Contains(substring, string.v))
       IN [i \in 1..Len(hits) |-> string.v \o Lit.contains \o hits[i]]
            \o check_list(substrings, Tail(strings))

\* Mutant: the blacklist without '--'
blacklist_semicolon_only == <<Lit.semicolon>>

blacklist == <<Lit.semicolon, Lit.dashdash>>

\* The values get_command scans: every scalar parameter, then the keys and
\* the values of a dict extra_lbann_flags.
strings(a) ==
  << a.cluster, a.executable,
     a.num_nodes, a.num_processes, a.partition, a.time_limit,
     a.ckpt_dir, a.dir_name, a.data_filedir_default, a.data_filedir_train_default,
     a.data_filename_train_default, a.data_filedir_test_default,
     a.data_filename_test_default, a.data_reader_name, a.data_reader_path,
     a.data_reader_percent, PyBool(a.exit_after_setup), a.metadata, a.mini_batch_size,
     a.model_folder, a.model_name, a.model_path, a.num_epochs, a.optimizer_name,
     a.optimizer_path, a.processes_per_model,
     a.error_file_name, a.output_file_name,
     PyBool(a.check_executable_existence), PyBool(a.return_tuple),
     PyBool(a.skip_no_exe), PyBool(a.weekly) >>
  \o (IF a.extra_lbann_flags.t = "dict"
      THEN [i \in 1..Len(a.extra_lbann_flags.v) |-> PyStr(a.extra_lbann_flags.v[i].k)]
           \o [i \in 1..Len(a.extra_lbann_flags.v) |-> a.extra_lbann_flags.v[i].v]
      ELSE <<>>)

invalid_character_errors(a) == check_list(blacklist, strings(a))

\* lbann_errors after the extra_lbann_flags type check
initial_lbann_errors(a) ==
  IF ~IsNone(a.extra_lbann_flags) /\ a.extra_lbann_flags.t # "dict"
  THEN <<Lit.not_a_dict>>
  ELSE <<>>

NoResult == [kind |-> "none"]
Raise(msg) == [kind |-> "raise", msg |-> msg]
Skip(msg) == [kind |-> "skip", msg |-> msg]
Return(value) == [kind |-> "return", value |-> value]

\* get_command, lines 50-82
CheckBlacklist ==
  /\ pc = "blacklist"
  /\ lbann_errors' = initial_lbann_errors(args)
  /\ IF invalid_character_errors(args) # <<>>
     THEN /\ result' = Raise(Lit.invalid_characters
                               \o Join(Lit.sep, invalid_character_errors(args)))
          /\ pc' = "raised"
     ELSE /\ result' = result
          /\ pc' = "time"
  /\ UNCHANGED <<args, env, time_limit, scheduler, command_allocate, command_run,
                 command_lbann, command_redirect>>

---------------------------------------------------------------------------
(* Time limit *)

DEFAULT_TIME == 35
MAX_TIME == 360
max_ray_time == 480

\* Mutant: the weekly default is applied, the clamp is not
resolve_time_limit_no_clamp(tl, weekly) ==
  IF IsNone(tl) THEN (IF weekly THEN MAX_TIME ELSE DEFAULT_TIME) ELSE tl.v

\* get_command, lines 86-92: the time limit after defaulting and clamping
resolve_time_limit(tl, weekly) ==
  LET t == IF IsNone(tl) THEN (IF weekly THEN MAX_TIME ELSE DEFAULT_TIME) ELSE tl.v
  IN IF t > MAX_TIME THEN MAX_TIME ELSE t

ResolveTimeLimit ==
  /\ pc = "time"
  /\ time_limit' = PyInt(resolve_time_limit(args.time_limit, args.weekly))
  /\ pc' = "executable"
  /\ UNCHANGED <<args, env, scheduler, lbann_errors, command_allocate, command_run,
                 command_lbann, command_redirect, result>>

---------------------------------------------------------------------------
(* Executable existence and scheduler *)

\* os.path.exists
exists(path) == path \in env.files

\* process_executable_existence, called when check_executable_existence
CheckExecutable ==
  /\ pc = "executable"
  /\ IF args.check_executable_existence /\ ~exists(args.executable.v)
     THEN IF args.skip_no_exe
          THEN /\ result' = Skip(Lit.exe_missing \o Format(args.executable))
               /\ pc' = "skipped"
          ELSE /\ result' = Raise(Lit.exe_missing \o Format(args.executable))
               /\ pc' = "raised"
     ELSE /\ result' = result
          /\ pc' = "scheduler"
  /\ UNCHANGED <<args, env, time_limit, scheduler, lbann_errors, command_allocate,
                 command_run, command_lbann, command_redirect>>

\* Mutant: ray is not a known cluster
lsf_clusters_without_ray == {Lit.lassen}

slurm_clusters == {Lit.catalyst, Lit.corona, Lit.pascal}
lsf_clusters == {Lit.lassen, Lit.ray}

\* get_command, lines 99-104
DetermineScheduler ==
  /\ pc = "scheduler"
  /\ IF args.cluster.v \in slurm_clusters
     THEN /\ scheduler' = "slurm" /\ pc' = "allocate" /\ result' = result
     ELSE IF args.cluster.v \in lsf_clusters
     THEN /\ scheduler' = "lsf" /\ pc' = "allocate" /\ result' = result
     ELSE /\ scheduler' = scheduler
          /\ result' = Raise(Lit.unsupported_cluster \o Format(args.cluster))
          /\ pc' = "raised"
  /\ UNCHANGED <<args, env, time_limit, lbann_errors, command_allocate, command_run,
                 command_lbann, command_redirect>>

---------------------------------------------------------------------------
(* Allocation and run commands *)

\* os.getenv(name) is not None
defined(name) == name \in env.defined

\* Mutant: the partition is passed to salloc as requested
slurm_partition_as_requested(a) == a.partition

\* get_command, lines 124-131: the partition named in the salloc command
slurm_partition(a) ==
  IF a.cluster.v \in {Lit.pascal} /\ a.partition.v = Lit.pdebug
  THEN PyStr(Lit.pbatch)
  ELSE a.partition

\* get_command, lines 110-141
slurm_allocate(a, tl) ==
  IF ~defined("SLURM_JOB_NUM_NODES")
  THEN LET option_num_nodes ==
             IF ~IsNone(a.num_nodes) THEN Lit.nodes \o FormatInt(a.num_nodes.v) ELSE <<>>
           option_partition ==
             IF ~IsNone(a.partition) THEN Lit.partition \o Format(slurm_partition(a)) ELSE <<>>
           option_time_limit ==
             IF ~IsNone(tl) THEN Lit.time \o FormatInt(tl.v) ELSE <<>>
       IN Lit.salloc \o option_num_nodes \o option_partition \o option_time_limit
  ELSE <<>>

\* get_command, lines 144-155
slurm_run(a, tl, allocate) ==
  LET space == IF allocate = <<>> THEN <<>> ELSE Lit.space
      option_num_processes ==
        IF ~IsNone(a.num_processes) THEN Lit.ntasks \o FormatInt(a.num_processes.v) ELSE <<>>
  IN space \o Lit.srun \o Format(tl) \o option_num_processes

BuildSlurm ==
  /\ pc = "allocate"
  /\ scheduler = "slurm"
  /\ command_allocate' = slurm_allocate(args, time_limit)
  /\ command_run' = slurm_run(args, time_limit, command_allocate')
  /\ pc' = "lbann"
  /\ UNCHANGED <<args, env, time_limit, scheduler, lbann_errors, command_lbann,
                 command_redirect, result>>

\* Mutant: an lsf allocation is held only when both variables are defined
lsf_allocated_both == defined("LSB_HOSTS") /\ defined("LSB_JOBID")

\* get_command, line 161
lsf_allocated == defined("LSB_HOSTS") \/ defined("LSB_JOBID")

\* Mutant: the cap of ray is 240
lsf_time_limit_ray_cap_240(a, tl) ==
  IF ~lsf_allocated /\ ~IsNone(tl) /\ a.cluster.v = Lit.ray /\ tl.v > 240
  THEN PyInt(240)
  ELSE tl

\* get_command, lines 194-198: time_limit after the lsf allocation branch
lsf_time_limit(a, tl) ==
  IF ~lsf_allocated /\ ~IsNone(tl) /\ a.cluster.v = Lit.ray /\ tl.v > max_ray_time
  THEN PyInt(max_ray_time)
  ELSE tl

\* Mutant: the queue flag is written after the node-count and
\* processes-per-host flags
lsf_allocate_queue_last(a, tl) ==
  IF ~lsf_allocated
  THEN LET option_exclusive == IF a.cluster.v # Lit.lassen THEN Lit.x ELSE <<>>
           option_group == Lit.G
           option_interactive == Lit.Is
           option_num_nodes ==
             IF a.cluster.v = Lit.lassen THEN Lit.nnodes \o Format(a.num_nodes) ELSE <<>>
           option_num_processes ==
             IF a.cluster.v # Lit.lassen /\ ~IsNone(a.num_processes)
             THEN Lit.n \o FormatInt(a.num_processes.v)
             ELSE <<>>
           option_processes_per_node ==
             IF /\ a.cluster.v # Lit.lassen
                /\ ~IsNone(a.num_processes)
                /\ ~IsNone(a.num_nodes)
                /\ a.num_nodes.v # 0
             THEN Lit.R \o FormatInt(CeilDiv(a.num_processes.v, a.num_nodes.v)) \o Lit.R_close
             ELSE <<>>
           option_partition ==
             IF ~IsNone(a.partition) THEN Lit.q \o Format(a.partition) ELSE <<>>
           option_time_limit ==
             IF ~IsNone(tl) THEN Lit.W \o FormatInt(lsf_time_limit(a, tl).v) ELSE <<>>
       IN Lit.bsub \o option_exclusive \o option_group \o option_interactive
            \o option_num_nodes \o option_num_processes
            \o option_processes_per_node \o option_partition \o option_time_limit
  ELSE <<>>

\* get_command, lines 159-206
lsf_allocate(a, tl) ==
  IF ~lsf_allocated
  THEN LET option_exclusive == IF a.cluster.v # Lit.lassen THEN Lit.x ELSE <<>>
           option_group == Lit.G
           option_interactive == Lit.Is
           option_num_nodes ==
             IF a.cluster.v = Lit.lassen THEN Lit.nnodes \o Format(a.num_nodes) ELSE <<>>
           option_num_processes ==
             IF a.cluster.v # Lit.lassen /\ ~IsNone(a.num_processes)
             THEN Lit.n \o FormatInt(a.num_processes.v)
             ELSE <<>>
           option_processes_per_node ==
             IF /\ a.cluster.v # Lit.lassen
                /\ ~IsNone(a.num_processes)
                /\ ~IsNone(a.num_nodes)
                /\ a.num_nodes.v # 0
             THEN Lit.R \o FormatInt(CeilDiv(a.num_processes.v, a.num_nodes.v)) \o Lit.R_close
             ELSE <<>>
           option_partition ==
             IF ~IsNone(a.partition) THEN Lit.q \o Format(a.partition) ELSE <<>>
           option_time_limit ==
             IF ~IsNone(tl) THEN Lit.W \o FormatInt(lsf_time_limit(a, tl).v) ELSE <<>>
       IN Lit.bsub \o option_exclusive \o option_group \o option_interactive
            \o option_num_processes \o option_partition \o option_num_nodes
            \o option_processes_per_node \o option_time_limit
  ELSE <<>>

\* Mutant: the process count is passed to jsrun as requested
lassen_num_processes_uncapped(n) == n

\* get_command, lines 233-234: the process count jsrun is given
lassen_num_processes(n) == IF n > 16 THEN 16 ELSE n

\* get_command, lines 209-249
lsf_run(a, tl, allocate) ==
  LET space == IF allocate = <<>> THEN <<>> ELSE Lit.space
      launcher ==
        IF a.cluster.v = Lit.lassen THEN space \o Lit.jsrun
        ELSE space \o Lit.mpirun \o Format(tl)
      lassen == ~IsNone(a.num_processes) /\ a.cluster.v = Lit.lassen
      other == ~IsNone(a.num_processes) /\ a.cluster.v # Lit.lassen
      option_bind == IF lassen THEN Lit.b ELSE <<>>
      option_cpu_per_resource == IF lassen THEN Lit.c ELSE <<>>
      option_gpu_per_resource == IF lassen THEN Lit.g ELSE <<>>
      option_launch_distribution == IF lassen THEN Lit.d ELSE <<>>
      option_num_processes ==
        IF lassen THEN Lit.n \o Format(PyInt(lassen_num_processes(a.num_processes.v)))
        ELSE IF other THEN Lit.np \o FormatInt(a.num_processes.v)
        ELSE <<>>
      option_processes_per_node ==
        IF other /\ ~IsNone(a.num_nodes) /\ a.num_nodes.v # 0
        THEN Lit.N \o FormatInt(CeilDiv(a.num_processes.v, a.num_nodes.v))
        ELSE <<>>
      option_resources_per_host == IF lassen THEN Lit.r ELSE <<>>
      option_tasks_per_resource == IF lassen THEN Lit.a ELSE <<>>
  IN launcher \o option_bind \o option_cpu_per_resource \o option_gpu_per_resource
       \o option_launch_distribution \o option_num_processes
       \o option_processes_per_node \o option_resources_per_host
       \o option_tasks_per_resource

BuildLsf ==
  /\ pc = "allocate"
  /\ scheduler = "lsf"
  /\ command_allocate' = lsf_allocate(args, time_limit)
  /\ time_limit' = lsf_time_limit(args, time_limit)
  /\ command_run' = lsf_run(args, time_limit', command_allocate')
  /\ pc' = "lbann"
  /\ UNCHANGED <<args, env, scheduler, lbann_errors, command_lbann, command_redirect,
                 result>>

---------------------------------------------------------------------------
(* Text order, sorting and substitution *)

\* The printable ASCII characters in code point order, from 32 (space); the
\* characters of code points 92 and 96 are written by name.
Ascii ==
  <<" ", "!", "\"", "#", "$", "%", "&", "'", "(", ")", "*", "+", ",", "-", ".", "/",
    "0", "1", "2", "3", "4", "5", "6", "7", "8", "9", ":", ";", "<", "=", ">", "?",
    "@", "A", "B", "C", "D", "E", "F", "G", "H", "I", "J", "K", "L", "M", "N", "O",
    "P", "Q", "R", "S", "T", "U", "V", "W", "X", "Y", "Z", "[", "backslash", "]", "^", "_",
    "backtick", "a", "b", "c", "d", "e", "f", "g", "h", "i", "j", "k", "l", "m", "n", "o",
    "p", "q", "r", "s", "t", "u", "v", "w", "x", "y", "z", "{", "|", "}", "~">>

\* Python ord(c)
ord(c) == 31 + (CHOOSE i \in 1..Len(Ascii) : Ascii[i] = c)

RECURSIVE StrLess(_, _)
\* Python a < b for two texts
StrLess(a, b) ==
  IF a = <<>> THEN b # <<>>
  ELSE IF b = <<>> THEN FALSE
  ELSE IF Head(a) = Head(b) THEN StrLess(Tail(a), Tail(b))
  ELSE ord(Head(a)) < ord(Head(b))

\* Mutant: the items are taken in insertion order
sorted_insertion_order(items) == items

RECURSIVE sorted(_)
\* Python sorted(d.items()): the keys of a dict are distinct, so the order of
\* the (flag, value) pairs is the order of their flags.
sorted(items) ==
  IF items = <<>> THEN <<>>
  ELSE LET m == CHOOSE i \in 1..Len(items) :
                  \A j \in 1..Len(items) : ~StrLess(items[j].k, items[i].k)
       IN <<items[m]>>
            \o sorted(SubSeq(items, 1, m - 1) \o SubSeq(items, m + 1, Len(items)))

IsLower(c) == ord(c) \in 97..122

RECURSIVE re_sub_scratch(_, _)
\* re.sub('[a-z]scratch[a-z]', repl, s)
re_sub_scratch(repl, s) ==
  IF s = <<>> THEN <<>>
  ELSE IF /\ Len(s) >= 9
          /\ IsLower(s[1])
          /\ SubSeq(s, 2, 8) = Lit.scratch
          /\ IsLower(s[9])
       THEN repl \o re_sub_scratch(repl, SubSeq(s, 10, Len(s)))
       ELSE <<s[1]>> \o re_sub_scratch(repl, Tail(s))

RECURSIVE re_sub_labels(_)
\* re.sub('labels', 'original/labels', s)
re_sub_labels(s) ==
  IF s = <<>> THEN <<>>
  ELSE IF Len(s) >= 6 /\ SubSeq(s, 1, 6) = Lit.labels
       THEN Lit.original_labels \o re_sub_labels(SubSeq(s, 7, Len(s)))
       ELSE <<s[1]>> \o re_sub_labels(Tail(s))

---------------------------------------------------------------------------
(* Application command *)

\* get_command, lines 434-482
allowed_flags ==
  << <<"b", "l", "o", "c", "k", "_", "s", "i", "z", "e">>,
     <<"p", "r", "o", "c", "s", "_", "p", "e", "r", "_", "t", "r", "a", "i", "n", "e", "r">>,
     <<"n", "u", "m", "_", "g", "p", "u", "s">>,
     <<"n", "u", "m", "_", "p", "a", "r", "a", "l", "l", "e", "l", "_", "r", "e", "a", "d", "e", "r", "s">>,
     <<"n", "u", "m", "_", "i", "o", "_", "t", "h", "r", "e", "a", "d", "s">>,
     <<"s", "e", "r", "i", "a", "l", "i", "z", "e", "_", "i", "o">>,
     <<"d", "i", "s", "a", "b", "l", "e", "_", "b", "a", "c", "k", "g", "r", "o", "u", "n", "d", "_", "i">>
       \o <<"o", "_", "a", "c", "t", "i", "v", "i", "t", "y">>,
     <<"d", "i", "s", "a", "b", "l", "e", "_", "c", "u", "d", "a">>,
     <<"r", "a", "n", "d", "o", "m", "_", "s", "e", "e", "d">>,
     <<"o", "b", "j", "e", "c", "t", "i", "v", "e", "_", "f", "u", "n", "c", "t", "i", "o", "n">>,
     <<"d", "a", "t", "a", "_", "l", "a", "y", "o", "u", "t">>,
     <<"p", "r", "i", "n", "t", "_", "a", "f", "f", "i", "n", "i", "t", "y">>,
     <<"u", "s", "e", "_", "d", "a", "t", "a", "_", "s", "t", "o", "r", "e">>,
     <<"p", "r", "e", "l", "o", "a", "d", "_", "d", "a", "t", "a", "_", "s", "t", "o", "r", "e">>,
     <<"s", "u", "p", "e", "r", "_", "n", "o", "d", "e">>,
     <<"w", "r", "i", "t", "e", "_", "s", "a", "m", "p", "l", "e", "_", "l", "i", "s", "t">>,
     <<"l", "t", "f", "b", "_", "v", "e", "r", "b", "o", "s", "e">>,
     <<"c", "k", "p", "t", "_", "d", "i", "r">>,
     <<"i", "n", "d", "e", "x", "_", "l", "i", "s", "t", "_", "t", "r", "a", "i", "n">>,
     <<"i", "n", "d", "e", "x", "_", "l", "i", "s", "t", "_", "t", "e", "s", "t">>,
     <<"l", "a", "b", "e", "l", "_", "f", "i", "l", "e", "n", "a", "m", "e", "_", "t", "r", "a", "i", "n">>,
     <<"l", "a", "b", "e", "l", "_", "f", "i", "l", "e", "n", "a", "m", "e", "_", "t", "e", "s", "t">>,
     <<"s", "h", "a", "r", "e", "_", "t", "e", "s", "t", "i", "n", "g", "_", "d", "a", "t", "a", "_", "r">>
       \o <<"e", "a", "d", "e", "r", "s">>,
     <<"i", "m", "a", "g", "e", "_", "d", "i", "r">>,
     <<"n", "o", "_", "i", "m", "_", "c", "o", "m", "m">> >>

\* Python str(list) of a list of texts
ListRepr(list) ==
  Lit.lbracket
    \o Join(Lit.comma, [i \in 1..Len(list) |-> Lit.quote \o list[i] \o Lit.quote])
    \o Lit.rbracket

InList(x, list) == \E i \in 1..Len(list) : list[i] = x

\* One error message when cond holds
ErrorIf(cond, msg) == IF cond THEN <<msg>> ELSE <<>>

data_file_parameters(a) ==
  <<a.data_filedir_train_default, a.data_filename_train_default,
    a.data_filedir_test_default, a.data_filename_test_default>>

AllNone(list) == \A i \in 1..Len(list) : IsNone(list[i])
NoneNone(list) == \A i \in 1..Len(list) : ~IsNone(list[i])

\* get_command, lines 270-315: model, reader and optimizer options
option_model(a) ==
  IF ~IsNone(a.model_path) THEN Lit.model \o Format(a.model_path)
  ELSE IF ~IsNone(a.dir_name) /\ ~IsNone(a.model_folder) /\ ~IsNone(a.model_name)
  THEN Lit.model \o Format(a.dir_name) \o Lit.model_zoo \o Format(a.model_folder)
         \o Lit.model_ \o Format(a.model_name) \o Lit.prototext
  ELSE <<>>

option_data_reader(a) ==
  IF ~IsNone(a.data_reader_path) THEN Lit.reader \o Format(a.data_reader_path)
  ELSE IF ~IsNone(a.dir_name) /\ ~IsNone(a.data_reader_name)
  THEN Lit.reader \o Format(a.dir_name) \o Lit.data_readers
         \o Format(a.data_reader_name) \o Lit.prototext
  ELSE <<>>

option_optimizer(a) ==
  IF ~IsNone(a.optimizer_path) THEN Lit.optimizer \o Format(a.optimizer_path)
  ELSE IF ~IsNone(a.dir_name) /\ ~IsNone(a.optimizer_name)
  THEN Lit.optimizer \o Format(a.dir_name) \o Lit.optimizers
         \o Format(a.optimizer_name) \o Lit.prototext
  ELSE <<>>

\* Mutant: model_path next to model_folder or model_name goes unreported
dir_name_errors_no_model_path_check(a) ==
  IF ~IsNone(a.dir_name)
  THEN ErrorIf(IsNone(a.model_path) /\ ~IsNone(a.model_folder) /\ IsNone(a.model_name),
               Lit.err_model_folder)
       \o ErrorIf(IsNone(a.model_path) /\ IsNone(a.model_folder) /\ ~IsNone(a.model_name),
                  Lit.err_model_name)
       \o ErrorIf(~IsNone(a.data_reader_name) /\ ~IsNone(a.data_reader_path),
                  Lit.err_data_reader_path)
       \o ErrorIf(~IsNone(a.optimizer_name) /\ ~IsNone(a.optimizer_path),
                  Lit.err_optimizer_path)
       \o ErrorIf(/\ IsNone(a.model_folder) /\ IsNone(a.model_name)
                  /\ IsNone(a.data_reader_name) /\ IsNone(a.optimizer_name),
                  Lit.err_dir_name_alone)
  ELSE ErrorIf(\/ ~IsNone(a.model_folder) \/ ~IsNone(a.model_name)
               \/ ~IsNone(a.data_reader_name) \/ ~IsNone(a.optimizer_name),
               Lit.err_dir_name_missing)

\* Mutant: optimizer_name is left out of the group dir_name goes with
dir_name_errors_without_optimizer(a) ==
  IF ~IsNone(a.dir_name)
  THEN ErrorIf(~IsNone(a.model_path) /\ (~IsNone(a.model_folder) \/ ~IsNone(a.model_name)),
               Lit.err_model_path)
       \o ErrorIf(IsNone(a.model_path) /\ ~IsNone(a.model_folder) /\ IsNone(a.model_name),
                  Lit.err_model_folder)
       \o ErrorIf(IsNone(a.model_path) /\ IsNone(a.model_folder) /\ ~IsNone(a.model_name),
                  Lit.err_model_name)
       \o ErrorIf(~IsNone(a.data_reader_name) /\ ~IsNone(a.data_reader_path),
                  Lit.err_data_reader_path)
       \o ErrorIf(~IsNone(a.optimizer_name) /\ ~IsNone(a.optimizer_path),
                  Lit.err_optimizer_path)
       \o ErrorIf(/\ IsNone(a.model_folder) /\ IsNone(a.model_name)
                  /\ IsNone(a.data_reader_name),
                  Lit.err_dir_name_alone)
  ELSE ErrorIf(\/ ~IsNone(a.model_folder) \/ ~IsNone(a.model_name)
               \/ ~IsNone(a.data_reader_name),
               Lit.err_dir_name_missing)

\* get_command, lines 280-315: errors of the dir_name block, in append order
dir_name_errors(a) ==
  IF ~IsNone(a.dir_name)
  THEN ErrorIf(~IsNone(a.model_path) /\ (~IsNone(a.model_folder) \/ ~IsNone(a.model_name)),
               Lit.err_model_path)
       \o ErrorIf(IsNone(a.model_path) /\ ~IsNone(a.model_folder) /\ IsNone(a.model_name),
                  Lit.err_model_folder)
       \o ErrorIf(IsNone(a.model_path) /\ IsNone(a.model_folder) /\ ~IsNone(a.model_name),
                  Lit.err_model_name)
       \o ErrorIf(~IsNone(a.data_reader_name) /\ ~IsNone(a.data_reader_path),
                  Lit.err_data_reader_path)
       \o ErrorIf(~IsNone(a.optimizer_name) /\ ~IsNone(a.optimizer_path),
                  Lit.err_optimizer_path)
       \o ErrorIf(/\ IsNone(a.model_folder) /\ IsNone(a.model_name)
                  /\ IsNone(a.data_reader_name) /\ IsNone(a.optimizer_name),
                  Lit.err_dir_name_alone)
  ELSE ErrorIf(\/ ~IsNone(a.model_folder) \/ ~IsNone(a.model_name)
               \/ ~IsNone(a.data_reader_name) \/ ~IsNone(a.optimizer_name),
               Lit.err_dir_name_missing)

\* The mount name that replaces the scratch mount on an lsf cluster
mount(a) == IF a.cluster.v = Lit.lassen THEN Lit.gpfs1 ELSE Lit.gscratchr

\* get_command, lines 322-331
option_data_filedir(a) ==
  IF ~IsNone(a.data_filedir_default) /\ a.cluster.v \in lsf_clusters
  THEN Lit.data_filedir \o re_sub_scratch(mount(a), a.data_filedir_default.v)
  ELSE <<>>

\* get_command, lines 332-359: the four train/test options, concatenated in
\* the order they take in the command
option_data_files(a) ==
  IF /\ IsNone(a.data_filedir_default)
     /\ NoneNone(data_file_parameters(a))
     /\ a.cluster.v \in lsf_clusters
  THEN LET filename(s) ==
             IF a.cluster.v = Lit.lassen
             THEN re_sub_labels(re_sub_scratch(mount(a), s))
             ELSE re_sub_scratch(mount(a), s)
       IN Lit.data_filedir_train
            \o re_sub_scratch(mount(a), a.data_filedir_train_default.v)
            \o Lit.data_filename_train \o filename(a.data_filename_train_default.v)
            \o Lit.data_filedir_test
            \o re_sub_scratch(mount(a), a.data_filedir_test_default.v)
            \o Lit.data_filename_test \o filename(a.data_filename_test_default.v)
  ELSE <<>>

\* Mutant: a reader with an incomplete train/test quadruple is an error
data_location_errors_strict(a) ==
  IF ~IsNone(a.data_reader_name) \/ ~IsNone(a.data_reader_path)
  THEN IF ~IsNone(a.data_filedir_default)
       THEN ErrorIf(~AllNone(data_file_parameters(a)), Lit.err_both_shapes)
       ELSE ErrorIf(/\ ~NoneNone(data_file_parameters(a))
                    /\ a.data_reader_name # PyStr(Lit.synthetic),
                    Lit.err_no_data_location)
  ELSE IF ~IsNone(a.data_filedir_default)
       THEN <<Lit.err_filedir_no_reader>>
       ELSE ErrorIf(~AllNone(data_file_parameters(a)), Lit.err_files_no_reader)

\* get_command, lines 360-396
data_location_errors(a) ==
  IF ~IsNone(a.data_reader_name) \/ ~IsNone(a.data_reader_path)
  THEN IF ~IsNone(a.data_filedir_default)
       THEN ErrorIf(~AllNone(data_file_parameters(a)), Lit.err_both_shapes)
       ELSE ErrorIf(/\ AllNone(data_file_parameters(a))
                    /\ a.data_reader_name # PyStr(Lit.synthetic),
                    Lit.err_no_data_location)
  ELSE IF ~IsNone(a.data_filedir_default)
       THEN <<Lit.err_filedir_no_reader>>
       ELSE ErrorIf(~AllNone(data_file_parameters(a)), Lit.err_files_no_reader)

\* get_command, lines 397-411: data_reader_percent after conversion
data_reader_percent(a) ==
  IF ~IsNone(a.data_reader_percent)
  THEN IF float(a.data_reader_percent).t = "ValueError"
       THEN a.data_reader_percent
       ELSE float(a.data_reader_percent)
  ELSE IF a.weekly
       THEN [t |-> "float", neg |-> FALSE, int |-> <<"1">>, frac |-> <<"0">>]
       ELSE [t |-> "float", neg |-> FALSE, int |-> <<"0">>, frac |-> <<"1">>]

data_reader_percent_errors(a) ==
  ErrorIf(~IsNone(a.data_reader_percent) /\ float(a.data_reader_percent).t = "ValueError",
          Lit.err_percent_pre \o Format(a.data_reader_percent) \o Lit.err_percent_post)

\* get_command, lines 483-493: the message for one flag outside the allow-list
invalid_flag_error(flag) ==
  Lit.err_flag_pre \o flag \o Lit.err_flag_mid \o ListRepr(allowed_flags) \o Lit.dot

\* get_command, lines 485-488: the token of one allowed flag
extra_option(item) ==
  IF ~IsNone(item.v) THEN Lit.flag \o item.k \o Lit.eq \o Format(item.v)
  ELSE Lit.flag \o item.k

RECURSIVE extra_options_of(_)
extra_options_of(items) ==
  IF items = <<>> THEN <<>>
  ELSE (IF InList(Head(items).k, allowed_flags) THEN extra_option(Head(items)) ELSE <<>>)
         \o extra_options_of(Tail(items))

RECURSIVE extra_errors_of(_)
extra_errors_of(items) ==
  IF items = <<>> THEN <<>>
  ELSE ErrorIf(~InList(Head(items).k, allowed_flags), invalid_flag_error(Head(items).k))
         \o extra_errors_of(Tail(items))

\* Mutant: an allowed flag in the dict hides the flags that are not allowed
extra_errors_hidden_by_allowed(a) ==
  IF a.extra_lbann_flags.t = "dict"
  THEN IF \E i \in 1..Len(a.extra_lbann_flags.v) :
            InList(a.extra_lbann_flags.v[i].k, allowed_flags)
       THEN <<>>
       ELSE extra_errors_of(sorted(a.extra_lbann_flags.v))
  ELSE <<>>

\* get_command, lines 426-493
extra_options(a) ==
  IF a.extra_lbann_flags.t = "dict" THEN extra_options_of(sorted(a.extra_lbann_flags.v))
  ELSE <<>>

extra_errors(a) ==
  IF a.extra_lbann_flags.t = "dict" THEN extra_errors_of(sorted(a.extra_lbann_flags.v))
  ELSE <<>>

\* Mutant: the validation stops at its first error
validation_errors_first_only(a) ==
  LET all == dir_name_errors(a) \o data_location_errors(a)
               \o data_reader_percent_errors(a) \o extra_errors(a)
  IN IF all = <<>> THEN <<>> ELSE <<all[1]>>

\* Every error the application-flag validation appends, in append order
validation_errors(a) ==
  dir_name_errors(a) \o data_location_errors(a) \o data_reader_percent_errors(a)
    \o extra_errors(a)

\* get_command, lines 497-504
lbann_command(a) ==
  Format(a.executable)
    \o (IF ~IsNone(a.ckpt_dir) THEN Lit.ckpt_dir \o Format(a.ckpt_dir) ELSE <<>>)
    \o option_data_filedir(a)
    \o option_data_files(a)
    \o option_data_reader(a)
    \o Lit.data_reader_percent \o Format(data_reader_percent(a))
    \o (IF a.exit_after_setup THEN Lit.exit_after_setup ELSE <<>>)
    \o (IF ~IsNone(a.metadata)
        THEN Lit.metadata \o Format(a.dir_name) \o Lit.slash \o Format(a.metadata)
        ELSE <<>>)
    \o (IF ~IsNone(a.mini_batch_size)
        THEN Lit.mini_batch_size \o FormatInt(a.mini_batch_size.v) ELSE <<>>)
    \o option_model(a)
    \o (IF ~IsNone(a.num_epochs) THEN Lit.num_epochs \o FormatInt(a.num_epochs.v) ELSE <<>>)
    \o option_optimizer(a)
    \o (IF ~IsNone(a.processes_per_model)
        THEN Lit.procs_per_model \o FormatInt(a.processes_per_model.v) ELSE <<>>)
    \o extra_options(a)

\* get_command, lines 254-504
BuildLbann ==
  /\ pc = "lbann"
  /\ lbann_errors' = lbann_errors \o validation_errors(args)
  /\ IF lbann_errors' # <<>>
     THEN /\ result' = Raise(Lit.invalid_usage \o Join(Lit.sep, lbann_errors'))
          /\ command_lbann' = command_lbann
          /\ pc' = "raised"
     ELSE /\ result' = result
          /\ command_lbann' = lbann_command(args)
          /\ pc' = "redirect"
  /\ UNCHANGED <<args, env, time_limit, scheduler, command_allocate, command_run,
                 command_redirect>>

\* get_command, lines 506-513
redirect_command(a) ==
  (IF ~IsNone(a.output_file_name) THEN Lit.out \o Format(a.output_file_name) ELSE <<>>)
    \o (IF ~IsNone(a.error_file_name) THEN Lit.err \o Format(a.error_file_name) ELSE <<>>)

\* Mutant: the segments are joined without the space
command_string_no_space(t) == t[1] \o t[2] \o t[3] \o t[4]

\* get_command, line 521: '%s%s %s%s' % t
command_string(t) == t[1] \o t[2] \o Lit.space \o t[3] \o t[4]

\* get_command, lines 506-523
BuildResult ==
  /\ pc = "redirect"
  /\ command_redirect' = redirect_command(args)
  /\ LET t == <<command_allocate, command_run, command_lbann, command_redirect'>>
     IN result' = IF args.return_tuple THEN Return(t) ELSE Return(command_string(t))
  /\ pc' = "returned"
  /\ UNCHANGED <<args, env, time_limit, scheduler, lbann_errors, command_allocate,
                 command_run, command_lbann>>

---------------------------------------------------------------------------
(* Calls: the parameters and the environment of one call of get_command *)

MaxNodes == 3
MaxProcs == 17
MaxExtraFlags == 3

exe == <<"e", "x", "e">>

\* Every parameter at its default, on a known cluster
Base ==
  [ cluster |-> PyStr(Lit.catalyst), executable |-> PyStr(exe),
    num_nodes |-> PyNone, num_processes |-> PyNone, partition |-> PyNone,
    time_limit |-> PyNone,
    ckpt_dir |-> PyNone, dir_name |-> PyNone, data_filedir_default |-> PyNone,
    data_filedir_train_default |-> PyNone, data_filename_train_default |-> PyNone,
    data_filedir_test_default |-> PyNone, data_filename_test_default |-> PyNone,
    data_reader_name |-> PyNone, data_reader_path |-> PyNone,
    data_reader_percent |-> PyNone, exit_after_setup |-> FALSE, metadata |-> PyNone,
    mini_batch_size |-> PyNone, model_folder |-> PyNone, model_name |-> PyNone,
    model_path |-> PyNone, num_epochs |-> PyNone, optimizer_name |-> PyNone,
    optimizer_path |-> PyNone, processes_per_model |-> PyNone,
    extra_lbann_flags |-> PyNone,
    error_file_name |-> PyNone, output_file_name |-> PyNone,
    check_executable_existence |-> TRUE, return_tuple |-> FALSE, skip_no_exe |-> TRUE,
    weekly |-> FALSE ]

\* The executable exists and no allocation is held
BaseEnv == [files |-> {exe}, defined |-> {}]

Opt(s) == {PyNone, PyStr(s)}

\* The cluster names of the two scheduler families
SlurmNames == {Lit.catalyst, Lit.corona, Lit.pascal}
LsfNames == {Lit.lassen, Lit.ray}
KnownClusters == SlurmNames \cup LsfNames
UnknownClusters ==
  { <<>>, <<"q", "u", "a", "r", "t", "z">>, <<"R", "a", "y">>, <<"r", "a", "y", "s">> }

ScalarFields ==
  { "cluster", "executable", "num_nodes", "num_processes", "partition", "time_limit",
    "ckpt_dir", "dir_name", "data_filedir_default", "data_filedir_train_default",
    "data_filename_train_default", "data_filedir_test_default",
    "data_filename_test_default", "data_reader_name", "data_reader_path",
    "data_reader_percent", "metadata", "mini_batch_size", "model_folder", "model_name",
    "model_path", "num_epochs", "optimizer_name", "optimizer_path",
    "processes_per_model", "error_file_name", "output_file_name" }

\* Parameters whose clean text values lead past the blacklist to an outcome
FreeTextFields == {"cluster", "executable", "partition", "ckpt_dir", "output_file_name"}

BadTexts ==
  { <<";">>, <<"-", "-">>, <<"a", ";", "b">>, <<"a", "-", "-", "b">>, <<"-", "-", ";">> }
CleanTexts == { <<"-">>, <<"a", "-", "b">>, <<"-", "a", "-">>, <<":">> }

Dict1(k, v) == PyDict(<<[k |-> k, v |-> v]>>)

\* Calls that would end in some other outcome without the blacklist
BlacklistBases ==
  { [Base EXCEPT !.cluster = PyStr(c), !.dir_name = d, !.skip_no_exe = s] :
      c \in {Lit.catalyst, Lit.ray, <<"q", "u", "a", "r", "t", "z">>},
      d \in Opt(<<"d">>), s \in BOOLEAN }

BlacklistCalls ==
  LET as == { [b EXCEPT ![f] = PyStr(x)] :
                b \in BlacklistBases, f \in ScalarFields, x \in BadTexts }
            \cup { [b EXCEPT ![f] = PyStr(x)] :
                     b \in BlacklistBases, f \in FreeTextFields, x \in CleanTexts }
            \cup { [b EXCEPT !.extra_lbann_flags = Dict1(k, PyNone)] :
                     b \in BlacklistBases,
                     k \in BadTexts \cup CleanTexts \cup {allowed_flags[3]} }
            \cup { [b EXCEPT !.extra_lbann_flags = Dict1(allowed_flags[3], PyStr(x))] :
                     b \in BlacklistBases, x \in BadTexts \cup CleanTexts }
            \cup { [b EXCEPT !.extra_lbann_flags = PyStr(x)] :
                     b \in BlacklistBases, x \in BadTexts \cup CleanTexts }
  IN { [a |-> a, e |-> [BaseEnv EXCEPT !.files = fs]] : a \in as, fs \in {{}, {exe}} }

TimeLimits ==
  {PyNone} \cup { PyInt(t) : t \in {0, 1, DEFAULT_TIME, MAX_TIME - 1, MAX_TIME, MAX_TIME + 1,
                                    max_ray_time, max_ray_time + 1, 1000} }

TimeCalls ==
  { [a |-> [Base EXCEPT !.cluster = PyStr(c), !.time_limit = t, !.weekly = w],
     e |-> [BaseEnv EXCEPT !.defined = d]] :
      c \in KnownClusters, t \in TimeLimits, w \in BOOLEAN,
      d \in {{}, {"SLURM_JOB_NUM_NODES"}, {"LSB_JOBID"}} }

ClusterCalls ==
  { [a |-> [Base EXCEPT !.cluster = PyStr(c), !.check_executable_existence = ch,
                        !.skip_no_exe = s, !.dir_name = d],
     e |-> [BaseEnv EXCEPT !.files = fs]] :
      c \in KnownClusters \cup UnknownClusters, ch \in BOOLEAN, s \in BOOLEAN,
      d \in Opt(<<"d">>), fs \in {{}, {exe}} }

ReaderNames == {PyNone, PyStr(<<"m", "n", "i", "s", "t">>), PyStr(Lit.synthetic)}

ModelCalls ==
  { [a |-> [Base EXCEPT !.dir_name = d, !.model_folder = mf, !.model_name = mn,
                        !.model_path = mp, !.data_reader_name = rn,
                        !.data_reader_path = rp, !.optimizer_name = on,
                        !.optimizer_path = op, !.data_filedir_default = fd],
     e |-> BaseEnv] :
      d \in Opt(<<"d">>), mf \in Opt(<<"f">>), mn \in Opt(<<"n">>), mp \in Opt(<<"p">>),
      rn \in ReaderNames, rp \in Opt(<<"r">>), on \in Opt(<<"o">>), op \in Opt(<<"q">>),
      fd \in Opt(<<"/", "d">>) }

scratch_dir == <<"/", "p", "/", "l">> \o Lit.scratch \o <<"h", "/", "d">>
labels_file == <<"/", "p", "/", "l">> \o Lit.scratch \o <<"h", "/">> \o Lit.labels

DataCalls ==
  { [a |-> [Base EXCEPT !.cluster = PyStr(c), !.dir_name = d, !.data_reader_name = rn,
                        !.data_reader_path = rp, !.data_filedir_default = fd,
                        !.data_filedir_train_default = f1,
                        !.data_filename_train_default = f2,
                        !.data_filedir_test_default = f3,
                        !.data_filename_test_default = f4],
     e |-> BaseEnv] :
      c \in {Lit.catalyst, Lit.lassen, Lit.ray}, d \in Opt(<<"d">>), rn \in ReaderNames,
      rp \in Opt(<<"r">>), fd \in Opt(scratch_dir), f1 \in Opt(scratch_dir),
      f2 \in Opt(labels_file), f3 \in Opt(<<"/", "t">>), f4 \in Opt(Lit.labels) }

FlagNames ==
  { allowed_flags[3], allowed_flags[5], allowed_flags[18],
    <<"b", "o", "g", "u", "s", "_", "f", "l", "a", "g">> }
FlagValues == {PyNone, PyInt(2)}

\* The dicts of at most n entries: sequences of (flag, value) pairs with
\* distinct flags, in insertion order
RECURSIVE Dicts(_)
Dicts(n) ==
  IF n = 0 THEN {<<>>}
  ELSE Dicts(n - 1)
         \cup { Append(d, [k |-> k, v |-> v]) :
                  d \in { x \in Dicts(n - 1) : Len(x) = n - 1 },
                  k \in FlagNames, v \in FlagValues }

DistinctKeys(d) == \A i, j \in 1..Len(d) : d[i].k = d[j].k => i = j

Percents ==
  { PyNone, PyInt(1), PyStr(<<"0", ".", "5", "0">>), PyStr(<<"a", "b", "c">>),
    PyStr(<<".">>), PyStr(<<"1", ".">>) }

FlagCalls ==
  { [a |-> [Base EXCEPT !.extra_lbann_flags = PyDict(d)], e |-> BaseEnv] :
      d \in { x \in Dicts(MaxExtraFlags) : DistinctKeys(x) } }
  \cup
  { [a |-> [Base EXCEPT !.extra_lbann_flags = x, !.dir_name = d, !.model_folder = mf,
                        !.data_reader_percent = p, !.ckpt_dir = ck, !.weekly = w],
     e |-> BaseEnv] :
      x \in { PyNone, PyStr(allowed_flags[3]) }
              \cup { PyDict(y) : y \in { z \in Dicts(2) : DistinctKeys(z) /\ Len(z) > 0 } },
      d \in Opt(<<"d">>), mf \in Opt(<<"f">>), p \in Percents,
      ck \in Opt(<<"c">>), w \in {FALSE} }

Counts(max) == {PyNone} \cup { PyInt(n) : n \in 0..max }

ShapeCalls ==
  { [a |-> [Base EXCEPT !.cluster = PyStr(c), !.num_nodes = nn, !.num_processes = np],
     e |-> [BaseEnv EXCEPT !.defined = d]] :
      c \in KnownClusters, nn \in Counts(MaxNodes), np \in Counts(MaxProcs),
      d \in {{}, {"SLURM_JOB_NUM_NODES", "LSB_HOSTS"}} }

Partitions ==
  {PyNone, PyStr(Lit.pdebug), PyStr(Lit.pbatch), PyStr(<<"p", "d", "e", "b", "u", "g", "2">>)}

LayoutCalls ==
  { [a |-> [Base EXCEPT !.cluster = PyStr(c), !.partition = p, !.return_tuple = rt,
                        !.output_file_name = o, !.error_file_name = er,
                        !.metadata = m, !.exit_after_setup = x],
     e |-> [BaseEnv EXCEPT !.defined = d]] :
      c \in KnownClusters, p \in Partitions, rt \in BOOLEAN,
      o \in Opt(<<"o", "u", "t">>), er \in Opt(<<"e", "r", "r">>),
      m \in {PyNone}, x \in {FALSE},
      d \in SUBSET {"SLURM_JOB_NUM_NODES", "LSB_HOSTS", "LSB_JOBID"} }

\* Calls whose executable is empty or begins with a space, or whose last
\* application flag ends with a space
BoundaryCalls ==
  { [a |-> [Base EXCEPT !.cluster = PyStr(c), !.executable = PyStr(x),
                        !.check_executable_existence = FALSE, !.optimizer_path = op,
                        !.output_file_name = o, !.error_file_name = er,
                        !.return_tuple = rt],
     e |-> [BaseEnv EXCEPT !.defined = d]] :
      c \in KnownClusters, x \in {exe, <<>>, <<" ">> \o exe}, op \in Opt(<<"q", " ">>),
      o \in Opt(<<"o", "u", "t">>), er \in Opt(<<"e", "r", "r">>), rt \in BOOLEAN,
      d \in {{}, {"SLURM_JOB_NUM_NODES", "LSB_JOBID"}} }

\* Calls with node count, process count, partition and time limit together
QueueCalls ==
  { [a |-> [Base EXCEPT !.cluster = PyStr(c), !.num_nodes = nn, !.num_processes = np,
                        !.partition = p, !.time_limit = t],
     e |-> [BaseEnv EXCEPT !.defined = d]] :
      c \in KnownClusters, nn \in {PyNone, PyInt(0), PyInt(2)}, np \in {PyNone, PyInt(5)},
      p \in Partitions, t \in {PyNone, PyInt(MAX_TIME + 1)}, d \in {{}, {"LSB_JOBID"}} }

\* Calls with metadata, with and without dir_name, and the flags that take
\* no path
MetadataCalls ==
  { [a |-> [Base EXCEPT !.cluster = PyStr(c), !.dir_name = d, !.metadata = m,
                        !.optimizer_name = on, !.num_nodes = nn, !.exit_after_setup = x,
                        !.mini_batch_size = mb],
     e |-> [BaseEnv EXCEPT !.defined = dd]] :
      c \in {Lit.catalyst, Lit.lassen}, d \in Opt(<<"d">>), m \in Opt(<<"m">>),
      on \in Opt(<<"o">>), nn \in {PyNone, PyInt(1)}, x \in BOOLEAN,
      mb \in {PyNone, PyInt(8)}, dd \in {{}, {"LSB_HOSTS"}} }

Calls ==
  BlacklistCalls \cup TimeCalls \cup ClusterCalls \cup ModelCalls \cup DataCalls
    \cup FlagCalls \cup ShapeCalls \cup LayoutCalls \cup BoundaryCalls \cup QueueCalls
    \cup MetadataCalls

---------------------------------------------------------------------------
(* Specification *)

Init ==
  /\ \E c \in Calls : args = c.a /\ env = c.e
  /\ pc = "blacklist"
  /\ time_limit = args.time_limit
  /\ scheduler = "none"
  /\ lbann_errors = <<>>
  /\ command_allocate = <<>>
  /\ command_run = <<>>
  /\ command_lbann = <<>>
  /\ command_redirect = <<>>
  /\ result = NoResult

Next ==
  \/ CheckBlacklist
  \/ ResolveTimeLimit
  \/ CheckExecutable
  \/ DetermineScheduler
  \/ BuildSlurm
  \/ BuildLsf
  \/ BuildLbann
  \/ BuildResult

Spec == Init /\ [][Next]_vars

---------------------------------------------------------------------------
(* Log scanning: get_error_line, assert_success, assert_failure *)

\* The text literals of the three functions
LogLit ==
  [
    return_code |-> <<"r", "e", "t", "u", "r", "n", "_", "c", "o", "d", "e", "=">>,
    see |-> <<"\n", "S", "e", "e", " ">>,
    newline |-> <<"\n">>,
    success |-> <<"\n", "S", "u", "c", "c", "e", "s", "s", " ", "w", "h", "e", "n", " ", "e", "x", "p", "e", "c", "t", "i", "n", "g", " ", "f", "a", "i", "l", "u", "r", "e", ".", "\n", "S", "e", "e", " ">>,
    different |-> <<"\n", "F", "a", "i", "l", "e", "d", " ", "w", "i", "t", "h", " ", "e", "r", "r", "o", "r", " ", "d", "i", "f", "f", "e", "r", "e", "n", "t", " ", "t", "h", "a", "n", " ", "e", "x", "p", "e", "c", "t", "e", "d", ".", "\n", "a", "c", "t", "u", "a", "l", "_", "e", "r", "r", "o", "r", "=">>,
    expected_error |-> <<"\n", "e", "x", "p", "e", "c", "t", "e", "d", "_", "e", "r", "r", "o", "r", "=">>,
    no_such_file |-> <<"[", "E", "r", "r", "n", "o", " ", "2", "]", " ", "N", "o", " ", "s", "u", "c", "h", " ", "f", "i", "l", "e", " ", "o", "r", " ", "d", "i", "r", "e", "c", "t", "o", "r", "y", ":", " ">>
  ]

\* get_error_line, lines 606-610
error_markers ==
  { <<"E", "R", "R", "O", "R">>,
    <<"L", "B", "A", "N", "N", " ", "e", "r", "r", "o", "r">>,
    <<"E", "r", "r", "o", "r", ":">>,
    <<"E", "x", "p", "i", "r", "e", "d", " ", "o", "r", " ", "i", "n", "v", "a", "l", "i", "d", " ", "j", "o", "b">>,
    <<"S", "e", "g", "m", "e", "n", "t", "a", "t", "i", "o", "n", " ", "f", "a", "u", "l", "t", " ", "(", "c", "o", "r", "e", " ", "d", "u", "m", "p", "e", "d", ")">>,
    <<"R", "e", "l", "i", "n", "q", "u", "i", "s", "h", "i", "n", "g", " ", "j", "o", "b", " ", "a", "l", "l", "o", "c", "a", "t", "i", "o", "n">> }

\* get_error_line, lines 613-614
trace_headers ==
  { <<"S", "t", "a", "c", "k", " ", "t", "r", "a", "c", "e", ":">>,
    <<"E", "r", "r", "o", "r", " ", "i", "s", " ", "n", "o", "t", " ", "r", "e", "c", "o", "v", "e", "r", "a", "b", "l", "e", ":", " ", "e", "x", "i", "t", "i", "n", "g", " ", "n", "o", "w">> }

AssertionError(msg) == [kind |-> "raise", type |-> "AssertionError", msg |-> msg]

\* open(name, 'r') of a file that does not exist
IOError(name) ==
  [kind |-> "raise", type |-> "IOError",
   msg |-> LogLit.no_such_file \o Lit.quote \o name \o Lit.quote]

\* The file can be opened, and the lines its iteration yields
readable(name) == name \in env.files
lines_of(name) == env.lines

RECURSIVE scan_error_line(_, _, _)
\* get_error_line, lines 605-619: the loop from line i on, with the line
\* before it
scan_error_line(lines, i, previous_line) ==
  IF i > Len(lines) THEN <<>>
  ELSE IF \E m \in error_markers : Contains(m, lines[i]) THEN lines[i]
  ELSE IF \E h \in trace_headers : Contains(h, lines[i]) THEN previous_line
  ELSE scan_error_line(lines, i + 1, lines[i])

\* Mutant: a trace header stops the scan and yields the header line itself
error_line_of_header_line(lines) ==
  LET stops(i) == \E m \in error_markers \cup trace_headers : Contains(m, lines[i])
  IN IF \E i \in 1..Len(lines) : stops(i)
     THEN lines[CHOOSE i \in 1..Len(lines) : stops(i) /\ \A j \in 1..(i - 1) : ~stops(j)]
     ELSE <<>>

\* get_error_line, lines 603-619, on the lines of the opened file
error_line_of(lines) == scan_error_line(lines, 1, <<>>)

\* get_error_line
get_error_line(error_file_name) ==
  IF ~readable(error_file_name) THEN IOError(error_file_name)
  ELSE Return(error_line_of(lines_of(error_file_name)))

\* assert_success
assert_success(return_code, error_file_name) ==
  IF return_code.v # 0
  THEN LET error_line == get_error_line(error_file_name)
       IN IF error_line.kind = "raise" THEN error_line
          ELSE AssertionError(LogLit.return_code \o Format(return_code) \o LogLit.newline
                                \o error_line.value \o LogLit.see \o error_file_name)
  ELSE Return(PyNone)

\* Mutant: the scan for expected_error ends at the first failure-marker line
expected_found_before_error(expected_error, lines) ==
  \E i \in 1..Len(lines) :
    /\ Contains(expected_error, lines[i])
    /\ \A j \in 1..(i - 1) : ~\E m \in error_markers : Contains(m, lines[j])

\* assert_failure, lines 635-638
expected_found(expected_error, lines) ==
  \E i \in 1..Len(lines) : Contains(expected_error, lines[i])

\* assert_failure
assert_failure(return_code, expected_error, error_file_name) ==
  IF return_code.v = 0
  THEN AssertionError(LogLit.return_code \o Format(return_code) \o LogLit.success
                        \o error_file_name)
  ELSE IF ~readable(error_file_name) THEN IOError(error_file_name)
  ELSE IF expected_found(expected_error, lines_of(error_file_name))
  THEN Return(PyBool(TRUE))
  ELSE LET actual_error == get_error_line(error_file_name)
       IN AssertionError(LogLit.return_code \o Format(return_code) \o LogLit.different
                           \o actual_error.value \o LogLit.expected_error
                           \o expected_error \o LogLit.see \o error_file_name)

Ends(outcome) ==
  /\ result' = outcome
  /\ pc' = IF outcome.kind = "raise" THEN "raised" ELSE "returned"
  /\ UNCHANGED <<args, env, time_limit, scheduler, lbann_errors, command_allocate,
                 command_run, command_lbann, command_redirect>>

GetErrorLine ==
  /\ pc = "call" /\ args.function = "get_error_line"
  /\ Ends(get_error_line(args.error_file_name))

AssertSuccess ==
  /\ pc = "call" /\ args.function = "assert_success"
  /\ Ends(assert_success(args.return_code, args.error_file_name))

AssertFailure ==
  /\ pc = "call" /\ args.function = "assert_failure"
  /\ Ends(assert_failure(args.return_code, args.expected_error, args.error_file_name))

---------------------------------------------------------------------------
(* Calls of the log functions: a log file and the arguments *)

MaxLines == 3

\* Lines of a log: plain lines, one line for each failure marker and trace
\* header, a line with both, and a line that only resembles them
LogLines ==
  { <<"o", "k", "\n">>,
    <<"s", "o", "m", "e", " ", "d", "e", "t", "a", "i", "l", "\n">>,
    <<"E", "R", "R", "O", "R", ":", " ", "a", "\n">>,
    <<"L", "B", "A", "N", "N", " ", "e", "r", "r", "o", "r", " ", "o", "n", " ", "r", "a", "n", "k", " ", "0", "\n">>,
    <<"E", "r", "r", "o", "r", ":", " ", "b", "\n">>,
    <<"E", "x", "p", "i", "r", "e", "d", " ", "o", "r", " ", "i", "n", "v", "a", "l", "i", "d", " ", "j", "o", "b", " ", "7", "\n">>,
    <<"S", "e", "g", "m", "e", "n", "t", "a", "t", "i", "o", "n", " ", "f", "a", "u", "l", "t", " ", "(", "c", "o", "r", "e", " ", "d", "u", "m", "p", "e", "d", ")", "\n">>,
    <<"R", "e", "l", "i", "n", "q", "u", "i", "s", "h", "i", "n", "g", " ", "j", "o", "b", " ", "a", "l", "l", "o", "c", "a", "t", "i", "o", "n", " ", "7", "\n">>,
    <<"S", "t", "a", "c", "k", " ", "t", "r", "a", "c", "e", ":", "\n">>,
    <<"E", "r", "r", "o", "r", " ", "i", "s", " ", "n", "o", "t", " ", "r", "e", "c", "o", "v", "e", "r", "a", "b", "l", "e", ":", " ", "e", "x", "i", "t", "i", "n", "g", " ", "n", "o", "w", "\n">>,
    <<"E", "r", "r", "o", "r", ":", " ", "S", "t", "a", "c", "k", " ", "t", "r", "a", "c", "e", ":", "\n">>,
    <<"s", "t", "a", "c", "k", " ", "t", "r", "a", "c", "e", ":", " ", "e", "r", "r", "o", "r", "\n">> }

\* One line of each kind
KindLines ==
  { <<"o", "k", "\n">>,
    <<"s", "o", "m", "e", " ", "d", "e", "t", "a", "i", "l", "\n">>,
    <<"E", "r", "r", "o", "r", ":", " ", "b", "\n">>,
    <<"S", "t", "a", "c", "k", " ", "t", "r", "a", "c", "e", ":", "\n">>,
    <<"E", "r", "r", "o", "r", ":", " ", "S", "t", "a", "c", "k", " ", "t", "r", "a", "c", "e", ":", "\n">>,
    <<"s", "t", "a", "c", "k", " ", "t", "r", "a", "c", "e", ":", " ", "e", "r", "r", "o", "r", "\n">> }

RECURSIVE Seqs(_, _)
\* The sequences of at most n elements of S
Seqs(S, n) ==
  IF n = 0 THEN {<<>>}
  ELSE LET shorter == Seqs(S, n - 1)
       IN shorter \cup { Append(p, x) : p \in { q \in shorter : Len(q) = n - 1 }, x \in S }

Logs == Seqs(KindLines, MaxLines) \cup Seqs(LogLines, 2)

log_name == <<"e", ".", "t", "x", "t">>

ReturnCodes == {PyInt(0), PyInt(1), PyInt(255)}
ExpectedErrors == { <<>>, <<"d", "e", "t", "a", "i", "l">>, <<"E", "r", "r", "o", "r", ":">> }

\* The log file with its lines, or no file
LogEnvs ==
  { [files |-> {log_name}, defined |-> {}, lines |-> l] : l \in Logs }
    \cup { [files |-> {}, defined |-> {}, lines |-> <<>>] }

LogArgs ==
  { [function |-> "get_error_line", error_file_name |-> log_name] }
    \cup { [function |-> "assert_success", return_code |-> rc, error_file_name |-> log_name] :
             rc \in ReturnCodes }
    \cup { [function |-> "assert_failure", return_code |-> rc, expected_error |-> x,
            error_file_name |-> log_name] : rc \in ReturnCodes, x \in ExpectedErrors }

LogInit ==
  /\ args \in LogArgs
  /\ env \in LogEnvs
  /\ pc = "call"
  /\ time_limit = PyNone
  /\ scheduler = "none"
  /\ lbann_errors = <<>>
  /\ command_allocate = <<>>
  /\ command_run = <<>>
  /\ command_lbann = <<>>
  /\ command_redirect = <<>>
  /\ result = NoResult

LogNext ==
  \/ GetErrorLine
  \/ AssertSuccess
  \/ AssertFailure

LogSpec == LogInit /\ [][LogNext]_vars

---------------------------------------------------------------------------
(* Vocabulary of the properties *)

StartsWith(prefix, s) == Len(s) >= Len(prefix) /\ SubSeq(s, 1, Len(prefix)) = prefix
EndsWith(suffix, s) ==
  Len(s) >= Len(suffix) /\ SubSeq(s, Len(s) - Len(suffix) + 1, Len(s)) = suffix

\* The call has ended: it returned, raised or signalled a skip
Terminal == pc \in {"raised", "skipped", "returned"}

\* The application-flag validation has run
Validated == pc \in {"redirect", "returned"} \/ (pc = "raised" /\ command_run # <<>>)

\* The text s holds ';' or '--'
Blacklisted(s) ==
  \/ \E i \in 1..Len(s) : s[i] = ";"
  \/ \E i \in 1..(Len(s) - 1) : s[i] = "-" /\ s[i + 1] = "-"

\* Some text-valued scalar parameter, or some key or text value of a dict
\* extra_lbann_flags, holds ';' or '--'
HasBlacklisted ==
  \/ \E f \in ScalarFields : args[f].t = "str" /\ Blacklisted(args[f].v)
  \/ /\ args.extra_lbann_flags.t = "dict"
     /\ \E i \in 1..Len(args.extra_lbann_flags.v) :
          \/ Blacklisted(args.extra_lbann_flags.v[i].k)
          \/ /\ args.extra_lbann_flags.v[i].v.t = "str"
             /\ Blacklisted(args.extra_lbann_flags.v[i].v.v)

ExecutableMissing == args.check_executable_existence /\ args.executable.v \notin env.files

---------------------------------------------------------------------------
(* C1 *)

\* C1: whenever a text-valued scalar parameter, or a text key or text value
\* of a dict extra_lbann_flags, contains ';' or '--', the call raises the
\* 'Invalid character(s)' error at the blacklist check: the time limit is not
\* resolved, the executable is not looked up, no scheduler is resolved and no
\* command is built, so the outcome is never a skip, 'Unsupported Cluster'
\* or 'Invalid Usage'.
C1_BlacklistFirst ==
  (HasBlacklisted /\ pc # "blacklist") =>
    /\ pc = "raised"
    /\ result.kind = "raise"
    /\ StartsWith(Lit.invalid_characters, result.msg)
    /\ time_limit = args.time_limit
    /\ scheduler = "none"
    /\ command_allocate = <<>> /\ command_run = <<>> /\ command_lbann = <<>>

\* A blacklisted call that would otherwise hit the missing executable, the
\* unknown cluster and a usage error has raised.
C1_Witness ==
  /\ pc = "raised"
  /\ HasBlacklisted
  /\ ExecutableMissing
  /\ args.cluster.v \notin KnownClusters
  /\ ~IsNone(args.dir_name)
  /\ args.extra_lbann_flags.t = "dict"

---------------------------------------------------------------------------
(* C2 *)

RECURSIVE StrToNat(_)
\* The number a text of digits denotes
StrToNat(s) ==
  IF s = <<>> THEN 0
  ELSE 10 * StrToNat(SubSeq(s, 1, Len(s) - 1))
         + ((CHOOSE d \in 1..10 : DigitChars[d] = s[Len(s)]) - 1)

\* The digits that follow the first occurrence of flag in seg
DigitsAfter(flag, seg) ==
  LET i == CHOOSE k \in 1..Len(seg) :
             /\ SubSeq(seg, k, k + Len(flag) - 1) = flag
             /\ \A j \in 1..(k - 1) : SubSeq(seg, j, j + Len(flag) - 1) # flag
      from == i + Len(flag)
      isDigit(k) == \E d \in 1..10 : seg[k] = DigitChars[d]
      to == CHOOSE k \in (from - 1)..Len(seg) :
              /\ \A j \in from..k : isDigit(j)
              /\ (k = Len(seg) \/ ~isDigit(k + 1))
  IN SubSeq(seg, from, to)

\* The time flags of the four commands
TimeFlags ==
  { <<" ", "-", "-", "t", "i", "m", "e", "=">>, <<" ", "-", "W", " ">>,
    <<" ", "-", "-", "t", "i", "m", "e", "o", "u", "t", "=">> }

\* The time limit the call asks for: 35, or 360 for a weekly run, when none
\* is given, and never more than 360
ExpectedTime ==
  IF IsNone(args.time_limit) THEN (IF args.weekly THEN 360 ELSE 35)
  ELSE IF args.time_limit.v <= 360 THEN args.time_limit.v ELSE 360

\* C2: the resolved time limit is 35 (no time_limit, not weekly), 360 (no
\* time_limit, weekly) or min(time_limit, 360), and every time value in the
\* allocation and run segments (salloc --time, srun --time, bsub -W,
\* mpirun --timeout) is that value, hence at most 360 on every cluster.
C2_TimeLimit ==
  /\ (pc \in {"executable", "scheduler", "allocate", "lbann", "redirect", "returned",
              "skipped"}
        \/ (pc = "raised" /\ ~StartsWith(Lit.invalid_characters, result.msg)))
       => time_limit = PyInt(ExpectedTime)
  /\ \A seg \in {command_allocate, command_run} : \A flag \in TimeFlags :
       Contains(flag, seg) =>
         /\ DigitsAfter(flag, seg) # <<>>
         /\ StrToNat(DigitsAfter(flag, seg)) = ExpectedTime
         /\ StrToNat(DigitsAfter(flag, seg)) <= 360

\* A call on ray with a time limit above the ray cap has built bsub -W and
\* mpirun --timeout.
C2_Witness ==
  /\ pc = "returned"
  /\ args.cluster.v = Lit.ray
  /\ ~IsNone(args.time_limit) /\ args.time_limit.v > 480
  /\ Contains(<<" ", "-", "W", " ">>, command_allocate)
  /\ Contains(<<" ", "-", "-", "t", "i", "m", "e", "o", "u", "t", "=">>, command_run)

---------------------------------------------------------------------------
(* C3 *)

\* The call went past the scheduler resolution
Resolved == pc \in {"allocate", "lbann", "redirect", "returned"} \/ Validated

\* The slurm and lsf syntax of the allocation and run segments
SlurmSyntax ==
  /\ command_allocate # <<>> => StartsWith(Lit.salloc, command_allocate)
  /\ Contains(<<"s", "r", "u", "n", " ">>, command_run)
  /\ ~Contains(<<"j", "s", "r", "u", "n">>, command_run)
  /\ ~Contains(<<"m", "p", "i", "r", "u", "n">>, command_run)
LsfSyntax ==
  /\ command_allocate # <<>> => StartsWith(Lit.bsub, command_allocate)
  /\ \/ Contains(<<"j", "s", "r", "u", "n">>, command_run)
     \/ Contains(<<"m", "p", "i", "r", "u", "n", " ">>, command_run)

UnsupportedClusterRaised ==
  /\ pc = "raised"
  /\ result.kind = "raise"
  /\ result.msg = Lit.unsupported_cluster \o args.cluster.v

\* C3 as stated: every cluster name outside the known names, on inputs that
\* pass the blacklist check, ends in 'Unsupported Cluster', whatever the
\* other parameters and the filesystem are.
C3_Original ==
  (Terminal /\ ~HasBlacklisted /\ args.cluster.v \notin KnownClusters)
    => UnsupportedClusterRaised

\* C3, amended: catalyst, corona and pascal resolve to slurm and lassen and
\* ray to lsf, with the matching command syntax; a cluster name outside
\* these, on inputs that pass the blacklist check and the executable check
\* (check_executable_existence is False or the executable exists), ends in
\* 'Unsupported Cluster'; with the executable check on and the executable
\* missing the call ends in the skip or the 'Executable does not exist'
\* error before the cluster is looked at.
C3_Cluster ==
  /\ Resolved =>
       /\ args.cluster.v \in SlurmNames <=> scheduler = "slurm"
       /\ args.cluster.v \in LsfNames <=> scheduler = "lsf"
       /\ scheduler \in {"slurm", "lsf"}
       /\ (pc # "allocate" /\ scheduler = "slurm") => SlurmSyntax
       /\ (pc # "allocate" /\ scheduler = "lsf") => LsfSyntax
  /\ (Terminal /\ ~HasBlacklisted /\ args.cluster.v \notin KnownClusters) =>
       IF ExecutableMissing
       THEN /\ result.kind = (IF args.skip_no_exe THEN "skip" ELSE "raise")
            /\ result.msg = Lit.exe_missing \o args.executable.v
       ELSE UnsupportedClusterRaised
  /\ (Terminal /\ ~HasBlacklisted /\ ~ExecutableMissing /\ args.cluster.v \in KnownClusters)
       => ~UnsupportedClusterRaised

\* An unknown cluster with the executable in place has raised, with a usage
\* error pending that is never reported.
C3_Witness ==
  /\ UnsupportedClusterRaised
  /\ args.check_executable_existence
  /\ ~ExecutableMissing
  /\ ~IsNone(args.dir_name)

---------------------------------------------------------------------------
(* C4 *)

InvalidUsageRaised ==
  pc = "raised" /\ result.kind = "raise" /\ StartsWith(Lit.invalid_usage, result.msg)

\* C4 as stated: model_path together with model_folder raises an error whose
\* message contains the model_path text, for every value of dir_name.
C4_Original ==
  (Validated /\ ~IsNone(args.model_path) /\ ~IsNone(args.model_folder)) =>
    /\ pc = "raised"
    /\ result.kind = "raise"
    /\ Contains(Lit.err_model_path, result.msg)

\* C4, amended: model_path together with model_folder always raises
\* 'Invalid Usage'; the message contains "model_path is set but so is at
\* least one of model folder and model_name" when dir_name is set, and when
\* dir_name is not set it contains "dir_name is not set but at least one of
\* model_folder, model_name, data_reader_name, optimizer_name is." and not
\* the model_path text.
C4_ModelPath ==
  (Validated /\ ~IsNone(args.model_path) /\ ~IsNone(args.model_folder)) =>
    /\ InvalidUsageRaised
    /\ IF ~IsNone(args.dir_name)
       THEN Contains(Lit.err_model_path, result.msg)
       ELSE /\ Contains(Lit.err_dir_name_missing, result.msg)
            /\ ~Contains(Lit.err_model_path, result.msg)

\* model_path, model_folder and dir_name are set and the call has raised.
C4_Witness ==
  /\ InvalidUsageRaised
  /\ ~IsNone(args.model_path) /\ ~IsNone(args.model_folder) /\ ~IsNone(args.dir_name)
  /\ Contains(Lit.err_model_path, result.msg)

---------------------------------------------------------------------------
(* C5 *)

ReaderSelected == ~IsNone(args.data_reader_name) \/ ~IsNone(args.data_reader_path)
NotSynthetic == args.data_reader_name # PyStr(Lit.synthetic)
TrainTest ==
  { args.data_filedir_train_default, args.data_filename_train_default,
    args.data_filedir_test_default, args.data_filename_test_default }
QuadrupleComplete == PyNone \notin TrainTest
QuadrupleEmpty == TrainTest = {PyNone}

DataLocationMessages ==
  { Lit.err_both_shapes, Lit.err_no_data_location, Lit.err_filedir_no_reader,
    Lit.err_files_no_reader }

\* C5 as stated: a selected, non-synthetic reader without data_filedir_default
\* and without all four train/test defaults makes the call fail.
C5_Original ==
  (/\ Validated /\ ReaderSelected /\ NotSynthetic
   /\ IsNone(args.data_filedir_default) /\ ~QuadrupleComplete)
    => (pc = "raised" /\ result.kind = "raise")

\* C5, amended: a selected, non-synthetic reader with data_filedir_default
\* unset and none of the four train/test defaults set makes the call fail
\* with the 'data_reader_name or data_reader_path is set but not
\* data_filedir_default' usage error; a request that supplies only some of
\* the four is not rejected by any data-location rule, and when it returns
\* its application segment carries no data-location flag.
C5_DataLocation ==
  /\ (/\ Validated /\ ReaderSelected /\ NotSynthetic
      /\ IsNone(args.data_filedir_default) /\ QuadrupleEmpty)
       => (InvalidUsageRaised /\ Contains(Lit.err_no_data_location, result.msg))
  /\ (/\ Validated /\ ReaderSelected
      /\ IsNone(args.data_filedir_default) /\ ~QuadrupleEmpty /\ ~QuadrupleComplete)
       => /\ \A m \in DataLocationMessages : ~InList(m, lbann_errors)
          /\ pc = "returned" =>
               ~Contains(<<" ", "-", "-", "d", "a", "t", "a", "_", "f", "i", "l", "e">>,
                         command_lbann)

\* A non-synthetic reader with an incomplete quadruple has returned a command.
C5_Witness ==
  /\ pc = "returned"
  /\ ReaderSelected /\ NotSynthetic
  /\ IsNone(args.data_filedir_default) /\ ~QuadrupleEmpty /\ ~QuadrupleComplete
  /\ args.cluster.v = Lit.lassen

---------------------------------------------------------------------------
(* C6 *)

GroupSet ==
  \/ ~IsNone(args.model_folder) \/ ~IsNone(args.model_name)
  \/ ~IsNone(args.data_reader_name) \/ ~IsNone(args.optimizer_name)

\* C6: the dir_name rule reports an error exactly when dir_name and the group
\* {model_folder, model_name, data_reader_name, optimizer_name} disagree:
\* dir_name set with none of the four set, or dir_name unset with one of the
\* four set; the call then raises 'Invalid Usage' with that message, and
\* when they agree the rule adds no error.
C6_DirName ==
  Validated =>
    /\ InList(Lit.err_dir_name_alone, lbann_errors)
         <=> (~IsNone(args.dir_name) /\ ~GroupSet)
    /\ InList(Lit.err_dir_name_missing, lbann_errors)
         <=> (IsNone(args.dir_name) /\ GroupSet)
    /\ (~IsNone(args.dir_name) /\ ~GroupSet) =>
         (InvalidUsageRaised /\ Contains(Lit.err_dir_name_alone, result.msg))
    /\ (IsNone(args.dir_name) /\ GroupSet) =>
         (InvalidUsageRaised /\ Contains(Lit.err_dir_name_missing, result.msg))

\* Only optimizer_name of the group is set, dir_name is not, and the call
\* has raised.
C6_Witness ==
  /\ InvalidUsageRaised
  /\ IsNone(args.dir_name)
  /\ ~IsNone(args.optimizer_name)
  /\ IsNone(args.model_folder) /\ IsNone(args.model_name) /\ IsNone(args.data_reader_name)

---------------------------------------------------------------------------
(* C7 *)

IsDict == args.extra_lbann_flags.t = "dict"
Items == IF IsDict THEN args.extra_lbann_flags.v ELSE <<>>

FolderWithoutName ==
  /\ ~IsNone(args.dir_name) /\ IsNone(args.model_path)
  /\ ~IsNone(args.model_folder) /\ IsNone(args.model_name)

\* data_reader_percent is one of the texts that are no number
PercentNotAFloat ==
  args.data_reader_percent \in {PyStr(<<"a", "b", "c">>), PyStr(<<".">>)}

InvalidFlagText(flag) ==
  <<"i", "n", "v", "a", "l", "i", "d", " ", "f", "l", "a", "g", "=">> \o flag \o <<".">>

---------------------------------------------------------------------------
(* C8 *)

\* C8: with a dict extra_lbann_flags, every key outside the allow-list makes
\* the call raise with a message that names the key as invalid and lists
\* every flag of the allow-list, also when allowed keys stand next to it; a
\* dict of allowed keys only adds no such error.
C8_AllowList ==
  (Validated /\ IsDict) =>
    /\ \A i \in 1..Len(Items) :
         ~InList(Items[i].k, allowed_flags) =>
           /\ InvalidUsageRaised
           /\ Contains(InvalidFlagText(Items[i].k), result.msg)
           /\ \A j \in 1..Len(allowed_flags) :
                Contains(<<"'">> \o allowed_flags[j] \o <<"'">>, result.msg)
    /\ (\A i \in 1..Len(Items) : InList(Items[i].k, allowed_flags)) =>
         \A j \in 1..Len(lbann_errors) : ~StartsWith(Lit.err_flag_pre, lbann_errors[j])

\* A dict with an allowed and a disallowed key has raised.
C8_Witness ==
  /\ InvalidUsageRaised
  /\ IsDict
  /\ \E i \in 1..Len(Items) : ~InList(Items[i].k, allowed_flags)
  /\ \E i \in 1..Len(Items) : InList(Items[i].k, allowed_flags)

---------------------------------------------------------------------------
(* C9 *)

ValidDict == IsDict /\ \A i \in 1..Len(Items) : InList(Items[i].k, allowed_flags)

\* The token of one entry
Token(item) ==
  IF IsNone(item.v) THEN <<" ", "-", "-">> \o item.k
  ELSE <<" ", "-", "-">> \o item.k \o <<"=">> \o Format(item.v)

RECURSIVE Tokens(_)
Tokens(items) == IF items = <<>> THEN <<>> ELSE Token(Head(items)) \o Tokens(Tail(items))

\* The orders the entries of the dict can be taken in
Orders ==
  { [i \in 1..Len(Items) |-> Items[p[i]]] :
      p \in { q \in [1..Len(Items) -> 1..Len(Items)] :
                \A i, j \in 1..Len(Items) : q[i] = q[j] => i = j } }

Lexicographic(items) == \A i \in 1..(Len(items) - 1) : StrLess(items[i].k, items[i + 1].k)

Reversed(items) == [i \in 1..Len(items) |-> items[Len(items) + 1 - i]]

\* C9: for a dict of allowed flags the application segment ends with one
\* token per entry, ' --flag' for a None value and ' --flag=value' otherwise,
\* in lexicographic order of flag name; the same entries inserted in the
\* opposite order give the same segment.
C9_ExtraFlags ==
  (pc \in {"redirect", "returned"} /\ ValidDict) =>
    /\ \E o \in Orders : Lexicographic(o) /\ EndsWith(Tokens(o), command_lbann)
    /\ command_lbann =
         lbann_command([args EXCEPT !.extra_lbann_flags = PyDict(Reversed(Items))])

\* A dict inserted out of order, with a bare flag and a valued flag, returned.
C9_Witness ==
  /\ pc = "returned"
  /\ ValidDict
  /\ Len(Items) >= 3
  /\ ~Lexicographic(Items) /\ ~Lexicographic(Reversed(Items))
  /\ \E i, j \in 1..Len(Items) : IsNone(Items[i].v) /\ ~IsNone(Items[j].v)

---------------------------------------------------------------------------
(* C10 *)

\* The segments of the tuple result and the string they join to
Segments == <<command_allocate, command_run, command_lbann, command_redirect>>
Joined ==
  command_allocate \o command_run \o <<" ">> \o command_lbann \o command_redirect

First(s) == IF s = <<>> THEN "" ELSE s[1]
Last(s) == IF s = <<>> THEN "" ELSE s[Len(s)]

\* The result is the tuple of the segments, or the segments joined in the
\* order allocate, run, application, redirect with one space between run and
\* application; the run segment begins with one space exactly when the
\* allocation segment is not empty; the string does not begin with a space.
Layout ==
  /\ args.return_tuple => result = Return(Segments)
  /\ ~args.return_tuple => result = Return(Joined)
  /\ First(command_run) = " " <=> command_allocate # <<>>
  /\ ~StartsWith(<<" ", " ">>, command_run)
  /\ First(Joined) # " "
  /\ Last(command_allocate) # " "

\* Two spaces meet between run and application, or between application and
\* redirect
DoubleSpaceAtBoundary ==
  \/ Last(command_run) = " "
  \/ First(command_lbann) = " "
  \/ command_lbann = <<>>
  \/ (Last(command_lbann) = " " /\ First(command_redirect) = " ")

\* C10 as stated: the string is the four segments joined, the run segment
\* begins with a space exactly when an allocation is made, and the string
\* never has two consecutive spaces at a segment boundary.
C10_Original == pc = "returned" => (Layout /\ ~DoubleSpaceAtBoundary)

\* C10, amended: the string result is the four segments of the tuple result
\* joined in the order allocate, run, application, redirect with exactly one
\* space inserted between run and application and nothing between
\* application and redirect; the run segment starts with a single space
\* exactly when the allocation segment is non-empty, so the string never
\* starts with a space and has exactly one space between allocation and run.
\* Two consecutive spaces occur at the run/application boundary exactly when
\* the executable is empty or begins with a space, and at the
\* application/redirect boundary exactly when a redirect follows an
\* application segment that ends with a space.
C10_Layout ==
  pc = "returned" =>
    /\ Layout
    /\ Last(command_run) # " "
    /\ (First(command_lbann) = " " \/ command_lbann = <<>>)
         <=> (args.executable.v = <<>> \/ First(args.executable.v) = " ")
    /\ DoubleSpaceAtBoundary
         <=> \/ args.executable.v = <<>>
             \/ First(args.executable.v) = " "
             \/ (Last(command_lbann) = " " /\ command_redirect # <<>>)

\* A string result with an allocation, a redirect and no double space.
C10_Witness ==
  /\ pc = "returned"
  /\ ~args.return_tuple
  /\ command_allocate # <<>>
  /\ command_redirect # <<>>
  /\ ~DoubleSpaceAtBoundary
  /\ result.value = Joined

---------------------------------------------------------------------------
(* C11 *)

\* The run segment has been built
RunBuilt == Resolved /\ pc # "allocate"

\* The process-count flag of jsrun
JsrunCountFlag == <<" ", "-", "n", " ">>

\* C11: on lassen with num_processes n supplied, the run segment carries the
\* process-count flag '-n min(n, 16)' once, between the launch-distribution
\* flag and the resources-per-host flag: n above 16 is passed as 16, n of 16
\* or fewer is passed unchanged, and the cap raises no error.
C11_LassenCap ==
  (RunBuilt /\ args.cluster.v = <<"l", "a", "s", "s", "e", "n">>
     /\ ~IsNone(args.num_processes)) =>
    LET n == args.num_processes.v
        k == IF n > 16 THEN 16 ELSE n
        count == DigitsAfter(JsrunCountFlag, command_run)
    IN /\ Contains(JsrunCountFlag, command_run)
       /\ count # <<>>
       /\ StrToNat(count) = k
       /\ Contains(<<"p", "a", "c", "k", "e", "d">> \o JsrunCountFlag \o count
                     \o <<" ", "-", "r", " ", "1">>, command_run)
       /\ (pc = "raised" => StartsWith(Lit.invalid_usage, result.msg))
       /\ (Terminal /\ ~HasBlacklisted /\ ~ExecutableMissing
             /\ args = [Base EXCEPT !.cluster = args.cluster, !.num_nodes = args.num_nodes,
                                    !.num_processes = args.num_processes])
            => pc = "returned"

\* A request above 16 on lassen has returned a command with '-n 16'.
C11_Witness ==
  /\ pc = "returned"
  /\ args.cluster.v = <<"l", "a", "s", "s", "e", "n">>
  /\ ~IsNone(args.num_processes) /\ args.num_processes.v > 16
  /\ Contains(JsrunCountFlag \o <<"1", "6", " ">>, command_run)

---------------------------------------------------------------------------
(* C12 *)

\* The text that follows the first occurrence of flag in seg, up to the next
\* space or the end of seg
ValueAfter(flag, seg) ==
  LET i == CHOOSE k \in 1..Len(seg) :
             /\ SubSeq(seg, k, k + Len(flag) - 1) = flag
             /\ \A j \in 1..(k - 1) : SubSeq(seg, j, j + Len(flag) - 1) # flag
      from == i + Len(flag)
      to == CHOOSE k \in (from - 1)..Len(seg) :
              /\ \A j \in from..k : seg[j] # " "
              /\ (k = Len(seg) \/ seg[k + 1] = " ")
  IN SubSeq(seg, from, to)

PartitionFlag == <<" ", "-", "-", "p", "a", "r", "t", "i", "t", "i", "o", "n", "=">>
Pdebug == <<"p", "d", "e", "b", "u", "g">>
Pbatch == <<"p", "b", "a", "t", "c", "h">>

\* A slurm allocation is requested: none is held
SlurmRequested == "SLURM_JOB_NUM_NODES" \notin env.defined

\* C12: on pascal with partition 'pdebug' no segment contains 'pdebug', and
\* the allocation segment, when an allocation is requested, carries
\* '--partition=pbatch'; on every other slurm cluster, and for every other
\* partition value on pascal, a requested allocation carries the partition
\* as given; without a partition there is no partition flag.
C12_Partition ==
  (RunBuilt /\ args.cluster.v \in SlurmNames) =>
    /\ command_allocate = <<>> <=> ~SlurmRequested
    /\ ~Contains(PartitionFlag, command_run)
    /\ IsNone(args.partition) => ~Contains(PartitionFlag, command_allocate)
    /\ (~IsNone(args.partition) /\ SlurmRequested) =>
         /\ Contains(PartitionFlag, command_allocate)
         /\ ValueAfter(PartitionFlag, command_allocate) =
              IF args.cluster.v = <<"p", "a", "s", "c", "a", "l">> /\ args.partition.v = Pdebug
              THEN Pbatch
              ELSE args.partition.v
    /\ (args.cluster.v = <<"p", "a", "s", "c", "a", "l">> /\ args.partition = PyStr(Pdebug)) =>
         \A seg \in {command_allocate, command_run, command_lbann, command_redirect} :
           ~Contains(Pdebug, seg)

\* pascal with 'pdebug' has returned a command that allocates on pbatch.
C12_Witness ==
  /\ pc = "returned"
  /\ args.cluster.v = <<"p", "a", "s", "c", "a", "l">>
  /\ args.partition = PyStr(Pdebug)
  /\ Contains(PartitionFlag \o Pbatch \o <<" ">>, command_allocate)

---------------------------------------------------------------------------
(* C13 *)

\* The failure markers and the trace headers
FailureMarkers ==
  { <<"E", "R", "R", "O", "R">>,
    <<"L", "B", "A", "N", "N", " ", "e", "r", "r", "o", "r">>,
    <<"E", "r", "r", "o", "r", ":">>,
    <<"E", "x", "p", "i", "r", "e", "d", " ", "o", "r", " ", "i", "n", "v", "a", "l", "i", "d", " ", "j", "o", "b">>,
    <<"S", "e", "g", "m", "e", "n", "t", "a", "t", "i", "o", "n", " ", "f", "a", "u", "l", "t", " ", "(", "c", "o", "r", "e", " ", "d", "u", "m", "p", "e", "d", ")">>,
    <<"R", "e", "l", "i", "n", "q", "u", "i", "s", "h", "i", "n", "g", " ", "j", "o", "b", " ", "a", "l", "l", "o", "c", "a", "t", "i", "o", "n">> }
TraceHeaders ==
  { <<"S", "t", "a", "c", "k", " ", "t", "r", "a", "c", "e", ":">>,
    <<"E", "r", "r", "o", "r", " ", "i", "s", " ", "n", "o", "t", " ", "r", "e", "c", "o", "v", "e", "r", "a", "b", "l", "e", ":", " ", "e", "x", "i", "t", "i", "n", "g", " ", "n", "o", "w">> }

HasMarker(line) == \E m \in FailureMarkers : Contains(m, line)
HasHeader(line) == \E h \in TraceHeaders : Contains(h, line)

\* The log file is there, and its lines
LogPresent == env.files # {}
Log == env.lines

\* The first line with a failure marker or a trace header, 0 when none
StopLine ==
  IF \E i \in 1..Len(Log) : HasMarker(Log[i]) \/ HasHeader(Log[i])
  THEN CHOOSE i \in 1..Len(Log) :
         /\ HasMarker(Log[i]) \/ HasHeader(Log[i])
         /\ \A j \in 1..(i - 1) : ~HasMarker(Log[j]) /\ ~HasHeader(Log[j])
  ELSE 0

\* The line the claim names: the stopping line when it has a failure marker,
\* the line before it when it has only a trace header, the empty text when
\* there is no such line
Diagnostic ==
  IF StopLine = 0 THEN <<>>
  ELSE IF HasMarker(Log[StopLine]) THEN Log[StopLine]
  ELSE IF StopLine = 1 THEN <<>>
  ELSE Log[StopLine - 1]

\* C13: get_error_line returns the first line with a failure marker or a
\* trace header when that line has a failure marker (also when it has a
\* trace header too), the line before it when it has only a trace header
\* (the empty text when it is the first line), and the empty text when no
\* line has a marker or a header; the lines after the stopping line do not
\* change the result: the log cut after the stopping line gives the same.
C13_ErrorLine ==
  (pc # "call" /\ args.function = "get_error_line" /\ LogPresent) =>
    /\ pc = "returned"
    /\ result = Return(Diagnostic)
    /\ StopLine = 0 => result.value = <<>>
    /\ StopLine > 0 => result.value = error_line_of(SubSeq(Log, 1, StopLine))
    /\ (StopLine > 0 /\ HasMarker(Log[StopLine]) /\ HasHeader(Log[StopLine]))
         => result.value = Log[StopLine]

\* A trace header on the second line, with a failure marker on the third:
\* the first line is returned.
C13_Witness ==
  /\ pc = "returned"
  /\ args.function = "get_error_line"
  /\ Len(Log) = 3
  /\ StopLine = 2
  /\ ~HasMarker(Log[2])
  /\ HasMarker(Log[3])
  /\ result.value = Log[1]
  /\ Log[1] # Log[3]

---------------------------------------------------------------------------
(* C14 *)

ExpectedInLog == \E i \in 1..Len(Log) : Contains(args.expected_error, Log[i])

SuccessText ==
  <<"S", "u", "c", "c", "e", "s", "s", " ", "w", "h", "e", "n", " ", "e", "x", "p", "e",
    "c", "t", "i", "n", "g", " ", "f", "a", "i", "l", "u", "r", "e">>

\* C14: assert_failure with return code 0 raises the 'Success when expecting
\* failure' assertion error whatever the log holds, also when there is no
\* log file to scan; with another return code it returns True exactly when
\* some line of the log contains the expected text, wherever that line is;
\* with another return code and no such line it raises a different assertion
\* error whose text holds the expected text and the line get_error_line
\* computes.
C14_AssertFailure ==
  (pc # "call" /\ args.function = "assert_failure") =>
    /\ args.return_code.v = 0 =>
         /\ pc = "raised"
         /\ result.type = "AssertionError"
         /\ Contains(SuccessText, result.msg)
    /\ (args.return_code.v # 0 /\ LogPresent) =>
         /\ result = Return(PyBool(TRUE)) <=> ExpectedInLog
         /\ pc = "returned" <=> ExpectedInLog
         /\ ~ExpectedInLog =>
              /\ pc = "raised"
              /\ result.type = "AssertionError"
              /\ ~Contains(SuccessText, result.msg)
              /\ Contains(<<"a", "c", "t", "u", "a", "l", "_", "e", "r", "r", "o", "r", "=">>
                            \o Diagnostic
                            \o <<"\n", "e", "x", "p", "e", "c", "t", "e", "d", "_", "e", "r",
                                 "r", "o", "r", "=">>
                            \o args.expected_error \o <<"\n">>, result.msg)

\* The expected text is found only after the line get_error_line stops at.
C14_Witness ==
  /\ pc = "returned"
  /\ args.function = "assert_failure"
  /\ result = Return(PyBool(TRUE))
  /\ StopLine > 0
  /\ HasMarker(Log[StopLine])
  /\ \A i \in 1..StopLine : ~Contains(args.expected_error, Log[i])

---------------------------------------------------------------------------
(* C15 *)

\* The position of the first occurrence of flag in seg, 0 when there is none
Pos(flag, seg) ==
  IF Contains(flag, seg)
  THEN CHOOSE k \in 1..Len(seg) :
         /\ SubSeq(seg, k, k + Len(flag) - 1) = flag
         /\ \A j \in 1..(k - 1) : SubSeq(seg, j, j + Len(flag) - 1) # flag
  ELSE 0

\* The flags of flags that occur in seg occur in the order of flags
InOrder(flags, seg) ==
  \A i, j \in 1..Len(flags) :
    (i < j /\ Pos(flags[i], seg) > 0 /\ Pos(flags[j], seg) > 0)
      => Pos(flags[i], seg) < Pos(flags[j], seg)

FlagX == <<" ", "-", "x">>
FlagG == <<" ", "-", "G", " ", "g", "u", "e", "s", "t", "s">>
FlagIs == <<" ", "-", "I", "s">>
FlagNnodes == <<" ", "-", "n", "n", "o", "d", "e", "s", " ">>
FlagN == <<" ", "-", "n", " ">>
FlagR == <<" ", "-", "R", " ", "\"", "s", "p", "a", "n", "[", "p", "t", "i", "l", "e", "=">>
FlagQ == <<" ", "-", "q", " ">>
FlagW == <<" ", "-", "W", " ">>

\* A bsub allocation segment has been built
BsubBuilt == RunBuilt /\ args.cluster.v \in LsfNames /\ command_allocate # <<>>

OnLassen == args.cluster.v = <<"l", "a", "s", "s", "e", "n">>

\* C15 as stated: the flags of the bsub segment are in the order -x,
\* -G guests, -Is, -nnodes or -n followed by -R, -q, -W, so that the queue
\* flag comes after the node-count and processes-per-host flags.
C15_Original ==
  BsubBuilt =>
    /\ StartsWith(<<"b", "s", "u", "b", " ">>, command_allocate)
    /\ InOrder(<<FlagX, FlagG, FlagIs, FlagNnodes, FlagN, FlagR, FlagQ, FlagW>>,
               command_allocate)

\* C15, amended: the flags of the bsub segment are in the order -x (absent
\* on lassen), -G guests, -Is, the task-count flag -n (not on lassen, when
\* num_processes is given), the queue flag -q (when a partition is given),
\* the node-count flag -nnodes (lassen) or the processes-per-host flag -R
\* (not on lassen, when num_processes and a non-zero num_nodes are given),
\* then the time-limit flag -W: the queue flag comes after the task-count
\* flag and before the node-count and processes-per-host flags.
C15_Order ==
  BsubBuilt =>
    /\ StartsWith(<<"b", "s", "u", "b", " ">>, command_allocate)
    /\ InOrder(<<FlagX, FlagG, FlagIs, FlagN, FlagQ, FlagNnodes, FlagR, FlagW>>,
               command_allocate)
    /\ Contains(FlagX, command_allocate) <=> ~OnLassen
    /\ Contains(FlagG, command_allocate)
    /\ Contains(FlagIs, command_allocate)
    /\ Contains(FlagNnodes, command_allocate) <=> OnLassen
    /\ Contains(FlagN, command_allocate) <=> (~OnLassen /\ ~IsNone(args.num_processes))
    /\ Contains(FlagR, command_allocate)
         <=> /\ ~OnLassen
             /\ ~IsNone(args.num_processes)
             /\ ~IsNone(args.num_nodes) /\ args.num_nodes.v # 0
    /\ Contains(FlagQ, command_allocate) <=> ~IsNone(args.partition)
    /\ Contains(FlagW, command_allocate)

\* ray with process count, node count and queue: -n, -q, -R, -W in the
\* segment.
C15_Witness ==
  /\ pc = "returned"
  /\ BsubBuilt
  /\ Pos(FlagN, command_allocate) > 0
  /\ Pos(FlagN, command_allocate) < Pos(FlagQ, command_allocate)
  /\ Pos(FlagQ, command_allocate) < Pos(FlagR, command_allocate)
  /\ Pos(FlagR, command_allocate) < Pos(FlagW, command_allocate)

---------------------------------------------------------------------------
(* C16 *)

FlagNper == <<" ", "-", "N", " ">>

\* num_processes and a non-zero num_nodes are given
BothCounts ==
  ~IsNone(args.num_processes) /\ ~IsNone(args.num_nodes) /\ args.num_nodes.v # 0

\* C16: on an lsf cluster other than lassen, with num_processes p and a
\* non-zero num_nodes n, the run segment carries '-N k' and the allocation
\* segment, when there is one, carries '-R "span[ptile=k]"' with the same k,
\* the least integer with k * n >= p; when num_nodes is None or 0, or
\* num_processes is None, neither flag is written, and the call ends as it
\* does without them.
C16_ProcessesPerNode ==
  (RunBuilt /\ args.cluster.v \in LsfNames /\ ~OnLassen) =>
    IF BothCounts
    THEN LET p == args.num_processes.v
             n == args.num_nodes.v
             perRun == DigitsAfter(FlagNper, command_run)
             perAllocate == DigitsAfter(FlagR, command_allocate)
             k == StrToNat(perRun)
         IN /\ Contains(FlagNper, command_run)
            /\ perRun # <<>>
            /\ k * n >= p
            /\ (k - 1) * n < p
            /\ command_allocate # <<>> =>
                 /\ Contains(FlagR \o perAllocate \o <<"]", "\"">>, command_allocate)
                 /\ perAllocate = perRun
    ELSE /\ ~Contains(FlagNper, command_run)
         /\ ~Contains(FlagR, command_allocate)
         /\ (pc = "raised" => StartsWith(Lit.invalid_usage, result.msg))

\* ray with a process count that the node count does not divide: both flags
\* carry the quotient rounded up.
C16_Witness ==
  /\ pc = "returned"
  /\ args.cluster.v = <<"r", "a", "y">>
  /\ BothCounts
  /\ args.num_processes.v % args.num_nodes.v # 0
  /\ args.num_processes.v > args.num_nodes.v
  /\ Contains(FlagR, command_allocate)
  /\ DigitsAfter(FlagR, command_allocate) = DigitsAfter(FlagNper, command_run)

---------------------------------------------------------------------------
(* C17 *)

\* An allocation is held for the scheduler of the cluster
AllocationHeld ==
  IF args.cluster.v \in SlurmNames
  THEN "SLURM_JOB_NUM_NODES" \in env.defined
  ELSE env.defined \cap {"LSB_HOSTS", "LSB_JOBID"} # {}

\* The launcher of the cluster
Launcher ==
  IF args.cluster.v \in SlurmNames THEN <<"s", "r", "u", "n", " ">>
  ELSE IF OnLassen THEN <<"j", "s", "r", "u", "n">>
  ELSE <<"m", "p", "i", "r", "u", "n", " ">>

\* C17: the allocation segment is empty, and the run segment begins with
\* the launcher and no space, exactly when an allocation is held for the
\* resolved scheduler: SLURM_JOB_NUM_NODES defined on a slurm cluster,
\* LSB_HOSTS or LSB_JOBID defined on an lsf cluster. Otherwise the
\* allocation segment begins with salloc or bsub and the run segment with
\* one space and the launcher. The variables of the other scheduler do not
\* enter: the verdict is the same for every setting of them.
C17_Allocation ==
  (RunBuilt /\ args.cluster.v \in KnownClusters) =>
    /\ command_allocate = <<>> <=> AllocationHeld
    /\ StartsWith(Launcher, command_run) <=> AllocationHeld
    /\ StartsWith(<<" ">> \o Launcher, command_run) <=> ~AllocationHeld
    /\ ~AllocationHeld =>
         StartsWith(IF args.cluster.v \in SlurmNames
                    THEN <<"s", "a", "l", "l", "o", "c">>
                    ELSE <<"b", "s", "u", "b", " ">>, command_allocate)
    /\ (pc = "returned" /\ ~args.return_tuple) =>
         StartsWith(IF AllocationHeld THEN Launcher
                    ELSE IF args.cluster.v \in SlurmNames
                    THEN <<"s", "a", "l", "l", "o", "c">>
                    ELSE <<"b", "s", "u", "b", " ">>, result.value)

\* An lsf cluster with LSB_JOBID alone defined: no allocation is asked for.
C17_Witness ==
  /\ pc = "returned"
  /\ args.cluster.v \in LsfNames
  /\ env.defined = {"LSB_JOBID"}
  /\ command_allocate = <<>>
  /\ StartsWith(Launcher, command_run)

---------------------------------------------------------------------------
(* C18 *)

\* The time flags of the allocation commands and of the launchers
AllocateTimeFlags == { <<" ", "-", "-", "t", "i", "m", "e", "=">>, <<" ", "-", "W", " ">> }
RunTimeFlags ==
  { <<"r", "u", "n", " ", "-", "-", "m", "p", "i", "b", "i", "n", "d", "=", "o", "f", "f",
      " ", "-", "-", "t", "i", "m", "e", "=">>,
    <<"r", "u", "n", " ", "-", "-", "t", "i", "m", "e", "o", "u", "t", "=">> }

---------------------------------------------------------------------------
(* C19 *)

\* The positions of seg where a flag ' --name' begins, and its name
FlagStarts(seg) ==
  { i \in 1..(Len(seg) - 2) : SubSeq(seg, i, i + 2) = <<" ", "-", "-">> }
NameAt(seg, i) ==
  LET from == i + 3
      to == CHOOSE k \in (from - 1)..Len(seg) :
              /\ \A j \in from..k : seg[j] \notin {"=", " "}
              /\ (k = Len(seg) \/ seg[k + 1] \in {"=", " "})
  IN SubSeq(seg, from, to)

\* C19: in the application segment of a returned command every flag name
\* occurs at most once, also when ckpt_dir is set and 'ckpt_dir' is a key of
\* extra_lbann_flags.
C19_EachFlagOnce ==
  pc = "returned" =>
    \A i, j \in FlagStarts(command_lbann) :
      NameAt(command_lbann, i) = NameAt(command_lbann, j) => i = j

---------------------------------------------------------------------------
(* C20 *)

NoneText == <<"N", "o", "n", "e">>
FlagMetadata == <<" ", "-", "-", "m", "e", "t", "a", "d", "a", "t", "a", "=">>

\* C20: a returned command holds no flag whose value is the text of None:
\* -nnodes is written only when num_nodes is given, --metadata only when
\* metadata and dir_name are given, and no segment built from parameters
\* that do not hold the text 'None' holds it.
C20_NoUnsetValue ==
  pc = "returned" =>
    /\ Contains(FlagNnodes, command_allocate) => ~IsNone(args.num_nodes)
    /\ Contains(FlagMetadata, command_lbann)
         => (~IsNone(args.metadata) /\ ~IsNone(args.dir_name))
    /\ \A seg \in {command_allocate, command_run, command_lbann} :
         ~Contains(NoneText, seg)

====
